---- MODULE Spec2Model ----
(***************************************************************************)
(* A model of the web3 integration recipes: the useWallet hook (wallet     *)
(* connection state), the error parser and retry helper, the transaction   *)
(* manager and secure transaction service, the gas buffer, the multicall   *)
(* helper and the address validator.  Each component has its own           *)
(* specification; the variables of the other components stay at their      *)
(* initial values under it.                                                *)
(***************************************************************************)
EXTENDS Integers, Sequences, FiniteSets, TLC

VARIABLES
    \* ---- useWallet hook ----
    state,          \* WalletState: address, provider, signer, chainId, isConnecting, error
    marker,         \* localStorage 'walletConnected' === 'true'
    hasEthereum,    \* window.ethereum is defined
    walletAccounts, \* the accounts the wallet currently authorises (accounts[0] first)
    walletChain,    \* the network the wallet currently reports
    connPc,         \* position of each connect() invocation
    connAccount,    \* accounts[0] held by a connect() invocation after line 46
    swPc,           \* position of the switchNetwork() invocation
    swTarget,       \* targetChainId of the switchNetwork() invocation
    autoPc,         \* position of autoConnect()
    autoAccount,    \* accounts[0] held by autoConnect() after line 125
    requests,       \* requests outstanding at window.ethereum: [caller, method]
    snapshot,       \* address/chainId/marker observed when the page was last reloaded
    restored,       \* autoConnect() of this page load has populated the state
    disconnected,   \* disconnect() has run and no connect() was started since
    \* ---- ErrorHandler.handleWithRetry ----
    rtPc,           \* "idle", "running", "waiting", "returned", "thrown"
    rtMaxRetries,   \* this.maxRetries
    rtShouldRetry,  \* the shouldRetry argument: "undefined", "never", "always"
    rtAttempt,      \* the loop variable attempt
    rtCalls,        \* how many times operation() has been invoked
    rtLastRaw,      \* the value the last failed operation() threw
    rtLastError,    \* the local lastError
    rtThrown,       \* the value handleWithRetry threw to its caller
    rtWaits,        \* the delays passed to this.wait(), in order
    rtPredCalls,    \* how many times shouldRetry has been called
    rtPredArg,      \* the argument of the last shouldRetry call
    \* ---- TransactionManager ----
    txState,        \* TransactionState: hash, status, error, receipt
    txSeen,         \* the state last passed to the onStateChange callbacks
    txPc,           \* position of each executeTransaction() invocation
    txRun,          \* the number of the transaction each invocation submits
    txGasLimit,     \* the gasLimit each invocation sends
    txAccepted,     \* the network accepted the transaction of the invocation
    txOutcome,      \* how each invocation ended: "none", "returned", "thrown"
    txCurrent,      \* the invocation started last (0: none yet)
    txSeq,          \* executeTransaction() calls so far
    txThrown,       \* the value the last failed executeTransaction() threw to its caller
    \* ---- SecureTransactionService.executeSecureTransaction ----
    stPc,           \* position of the invocation
    stHash,         \* tx.hash once signer.sendTransaction resolved
    stReceipt,      \* the receipt tx.wait() resolved with
    stThrown,       \* the value thrown to the caller
    \* ---- GasUtils.estimateGasWithBuffer ----
    gasPc,          \* "idle", "estimating", "returned", "thrown"
    gasBuffer,      \* bufferPercent
    gasEstimate,    \* what contract[method].estimateGas resolved with
    gasResult,      \* the value returned
    \* ---- multicall ----
    mcPc,           \* "idle", "batch", "returned"
    mcLen,          \* calls.length; call k is the k-th element, k from 0
    mcBatchSize,    \* batchSize
    mcFailing,      \* the indices of the calls whose contract method rejects
    mcI,            \* the loop variable i
    mcBatch,        \* batchPromises: one promise per call of the current batch
    mcResults,      \* results
    \* ---- SecureContractService.secureTransfer ----
    trPc,           \* position of the invocation
    trToken,        \* tokenAddress
    trRecipient,    \* recipient
    trAmountValid,  \* whether AmountValidator.requireValid accepts amount
    trCalls,        \* the provider and contract calls issued, in order
    trThrown,       \* the message of the Error thrown to the caller
    \* ---- ErrorParser.parse, parseTransactionError, isRetryable on one value ----
    clPc,           \* "idle", "parsed", "thrown", "asked"
    clError,        \* the failure value passed in
    clResult,       \* what ErrorParser.parse returned, or the TypeError it threw
    clText,         \* what TransactionUtils.parseTransactionError returned
    clRetryable,    \* what TransactionErrorTracker.isRetryable answered
    \* ---- gas limit overrides ----
    glPc,           \* "idle" or the function that was applied
    glLimit,        \* the gas limit the caller supplies
    glErrors,       \* the message thrown or the errors reported; << >> when accepted
    glUsed,         \* the gasLimit of the request buildSecureTransaction returned
    \* ---- ErrorLogger ----
    elLogs,         \* ErrorLogger.logs: the entries kept, each the number of its log() call
    elCount,        \* the number of log() calls so far
    elLimit,        \* the limit of the last getRecentErrors call
    elResult,       \* what the last getRecentErrors returned, Null after a log or a clear
    \* ---- ContractFactory ----
    cfVariant,      \* "utils" (contract-helpers) or "readme": which getContract this factory runs
    cfContracts,    \* ContractFactory.contracts: key -> Null or Some(contract)
    cfCall,         \* the arguments of the last getContract call
    cfResult,       \* the contract the last getContract returned
    \* ---- transactionReducer ----
    rdState,        \* TransactionState: transactions and pending
    rdLast,         \* the type of the last action dispatched
    \* ---- ContractCallCache ----
    ccNow,          \* Date.now()
    ccCache,        \* ContractCallCache.cache: key -> Null or Some([data, timestamp])
    ccGet,          \* each get() in flight: its position, its call, the contract invocations it made, its result
    ccCleared       \* per key: clear() was called and no get of the key has started since

walletVars == <<state, marker, hasEthereum, walletAccounts, walletChain, connPc,
                connAccount, swPc, swTarget, autoPc, autoAccount, requests, snapshot,
                restored, disconnected>>

retryVars == <<rtPc, rtMaxRetries, rtShouldRetry, rtAttempt, rtCalls, rtLastRaw,
               rtLastError, rtThrown, rtWaits, rtPredCalls, rtPredArg>>

txVars == <<txState, txSeen, txPc, txRun, txGasLimit, txAccepted, txOutcome, txCurrent,
            txSeq, txThrown, stPc, stHash, stReceipt, stThrown>>

gasVars == <<gasPc, gasBuffer, gasEstimate, gasResult>>

mcVars == <<mcPc, mcLen, mcBatchSize, mcFailing, mcI, mcBatch, mcResults>>

trVars == <<trPc, trToken, trRecipient, trAmountValid, trCalls, trThrown>>

clVars == <<clPc, clError, clResult, clText, clRetryable>>

glVars == <<glPc, glLimit, glErrors, glUsed>>

elVars == <<elLogs, elCount, elLimit, elResult>>

cfVars == <<cfVariant, cfContracts, cfCall, cfResult>>

rdVars == <<rdState, rdLast>>

ccVars == <<ccNow, ccCache, ccGet, ccCleared>>

vars == <<walletVars, retryVars, txVars, gasVars, mcVars, trVars, clVars, glVars, elVars, cfVars, rdVars, ccVars>>

\* what the operations of one component leave alone
notWalletVars == <<retryVars, txVars, gasVars, mcVars, trVars, clVars, glVars, elVars, cfVars, rdVars, ccVars>>
notRetryVars == <<walletVars, txVars, gasVars, mcVars, trVars, clVars, glVars, elVars, cfVars, rdVars, ccVars>>
notTxVars == <<walletVars, retryVars, gasVars, mcVars, trVars, clVars, glVars, elVars, cfVars, rdVars, ccVars>>
notGasVars == <<walletVars, retryVars, txVars, mcVars, trVars, clVars, glVars, elVars, cfVars, rdVars, ccVars>>
notMcVars == <<walletVars, retryVars, txVars, gasVars, trVars, clVars, glVars, elVars, cfVars, rdVars, ccVars>>
notClVars == <<walletVars, retryVars, txVars, gasVars, mcVars, trVars, glVars, elVars, cfVars, rdVars, ccVars>>
notTrVars == <<walletVars, retryVars, txVars, gasVars, mcVars, clVars, glVars, elVars, cfVars, rdVars, ccVars>>
notGlVars == <<walletVars, retryVars, txVars, gasVars, mcVars, trVars, clVars, elVars, cfVars, rdVars, ccVars>>
notElVars == <<walletVars, retryVars, txVars, gasVars, mcVars, trVars, clVars, glVars, cfVars, rdVars, ccVars>>
notCfVars == <<walletVars, retryVars, txVars, gasVars, mcVars, trVars, clVars, glVars, elVars, rdVars, ccVars>>
notRdVars == <<walletVars, retryVars, txVars, gasVars, mcVars, trVars, clVars, glVars, elVars, cfVars, ccVars>>
notCcVars == <<walletVars, retryVars, txVars, gasVars, mcVars, trVars, clVars, glVars, elVars, cfVars, rdVars>>

(***************************************************************************)
(* Values                                                                  *)
(***************************************************************************)
None == "none"

\* number | null fields are modelled as sequences of length at most one
Null == << >>
Some(x) == <<x>>

Accounts == {"0xa1", "0xa2"}
AccountLists == {<< >>, <<"0xa1">>, <<"0xa2", "0xa1">>}
Chains == {1, 137}

\* bounds of the wallet model
MaxConnectCalls == 2

ConnectIds == 1..MaxConnectCalls

\* A JavaScript failure value: code is "undefined", "n:<number>" or "s:<string>"
JsError(msg) == [code |-> "undefined", message |-> msg]
RpcErrors ==
    { [code |-> "n:4001", message |-> "User rejected the request."],
      [code |-> "n:-32002", message |-> "Request already pending"],
      [code |-> "n:4902", message |-> "Unrecognized chain ID"],
      [code |-> "n:-32603", message |-> ""] }

(***************************************************************************)
(* Hex strings: `0x${n.toString(16)}` and parseInt(s, 16).  A hex string   *)
(* is the sequence of its digits after the 0x prefix.                      *)
(***************************************************************************)
RECURSIVE toString16(_)
toString16(n) ==
    IF n < 16 THEN <<n>> ELSE Append(toString16(n \div 16), n % 16)

RECURSIVE parseInt16(_)
parseInt16(s) ==
    IF Len(s) = 0 THEN 0
    ELSE 16 * parseInt16(SubSeq(s, 1, Len(s) - 1)) + s[Len(s)]


(***************************************************************************)
(* useWallet: the hook's state and its pure helpers                        *)
(***************************************************************************)
EmptyWalletState ==
    [address |-> None, provider |-> None, signer |-> None, chainId |-> Null,
     isConnecting |-> FALSE, error |-> None]

\* setState(prev => ({ ...prev, ...updates }))
updateState(prev, updates) ==
    [k \in DOMAIN prev |-> IF k \in DOMAIN updates THEN updates[k] ELSE prev[k]]

clearError(prev) == updateState(prev, [error |-> None])

getErrorMessage(e) ==
    IF e.code = "n:4001" THEN "Connection rejected by user"
    ELSE IF e.code = "n:-32002" THEN "Connection request already pending"
    ELSE IF e.message # "" THEN e.message
    ELSE "An unexpected error occurred"

\* the catch block of connect()
connectCatch(prev, e) ==
    updateState(prev, [isConnecting |-> FALSE, error |-> getErrorMessage(e)])

\* mutation of switchCatch: a failed switch also forgets the chain
switchCatchResetsChain(prev, e) ==
    updateState(prev, [error |-> "Failed to switch network", chainId |-> Null])

\* the catch block of switchNetwork()
switchCatch(prev, e) ==
    IF e.code = "n:4902" THEN updateState(prev, [error |-> "Network not added to MetaMask"])
    ELSE IF e.code = "n:4001" THEN updateState(prev, [error |-> "Network switch rejected by user"])
    ELSE updateState(prev, [error |-> "Failed to switch network"])

\* the body of disconnect(): the state update and the marker removal
disconnectState(prev) ==
    updateState(prev, [address |-> None, provider |-> None, signer |-> None,
                       chainId |-> Null, error |-> None])

Request(caller, method) == [caller |-> caller, method |-> method]

(***************************************************************************)
(* connect()                                                               *)
(***************************************************************************)
\* lines 38-48: clearError, isConnecting, the window.ethereum check, the request
ConnectStart(c) ==
    /\ connPc[c] = "idle"
    /\ LET s1 == updateState(clearError(state), [isConnecting |-> TRUE]) IN
       IF ~hasEthereum
       THEN /\ state' = connectCatch(s1, JsError("MetaMask not detected. Please install MetaMask."))
            /\ UNCHANGED <<connPc, requests>>
       ELSE /\ state' = s1
            /\ connPc' = [connPc EXCEPT ![c] = "awaitAccounts"]
            /\ requests' = requests \cup {Request(<<"connect", c>>, "eth_requestAccounts")}
    /\ UNCHANGED <<marker, hasEthereum, walletAccounts, walletChain, connAccount,
                   swPc, swTarget, autoPc, autoAccount, snapshot, restored>>
    /\ disconnected' = FALSE
    /\ UNCHANGED notWalletVars

\* lines 46-52: eth_requestAccounts resolves with the accounts the user authorised
ConnectAccountsResolve(c) ==
    /\ connPc[c] = "awaitAccounts"
    /\ \E accounts \in AccountLists :
        /\ walletAccounts' = accounts
        /\ requests' = requests \ {Request(<<"connect", c>>, "eth_requestAccounts")}
        /\ IF Len(accounts) = 0
           THEN /\ state' = connectCatch(state, JsError("No accounts found"))
                /\ connPc' = [connPc EXCEPT ![c] = "idle"]
                /\ UNCHANGED connAccount
           ELSE /\ connPc' = [connPc EXCEPT ![c] = "awaitProvider"]
                /\ connAccount' = [connAccount EXCEPT ![c] = accounts[1]]
                /\ UNCHANGED state
    /\ UNCHANGED <<marker, hasEthereum, walletChain, swPc, swTarget, autoPc,
                   autoAccount, snapshot, restored>>
    /\ UNCHANGED disconnected
    /\ UNCHANGED notWalletVars

\* lines 46-48, 69-75: eth_requestAccounts rejects
ConnectAccountsReject(c) ==
    /\ connPc[c] = "awaitAccounts"
    /\ \E e \in RpcErrors :
        state' = connectCatch(state, e)
    /\ requests' = requests \ {Request(<<"connect", c>>, "eth_requestAccounts")}
    /\ connPc' = [connPc EXCEPT ![c] = "idle"]
    /\ UNCHANGED <<marker, hasEthereum, walletAccounts, walletChain, connAccount,
                   swPc, swTarget, autoPc, autoAccount, snapshot, restored>>
    /\ UNCHANGED disconnected
    /\ UNCHANGED notWalletVars

\* lines 54-75: provider.getSigner() and provider.getNetwork() resolve, then the
\* state update and the marker; or one of them rejects into the catch block.
\* Nothing is written between the two awaits, so they are one step.
ConnectProvider(c) ==
    /\ connPc[c] = "awaitProvider"
    /\ \/ /\ state' = updateState(state,
                        [address |-> connAccount[c], provider |-> "provider",
                         signer |-> "signer", chainId |-> Some(walletChain),
                         isConnecting |-> FALSE])
          /\ marker' = TRUE
       \/ /\ \E e \in RpcErrors : state' = connectCatch(state, e)
          /\ UNCHANGED marker
    /\ connPc' = [connPc EXCEPT ![c] = "idle"]
    /\ connAccount' = [connAccount EXCEPT ![c] = None]
    /\ UNCHANGED <<hasEthereum, walletAccounts, walletChain, swPc, swTarget, autoPc,
                   autoAccount, requests, snapshot, restored>>
    /\ UNCHANGED disconnected
    /\ UNCHANGED notWalletVars

(***************************************************************************)
(* disconnect()                                                            *)
(***************************************************************************)
Disconnect ==
    /\ state' = disconnectState(state)
    /\ marker' = FALSE
    /\ UNCHANGED <<hasEthereum, walletAccounts, walletChain, connPc, connAccount,
                   swPc, swTarget, autoPc, autoAccount, requests, snapshot, restored>>
    /\ disconnected' = TRUE
    /\ UNCHANGED notWalletVars

(***************************************************************************)
(* switchNetwork(targetChainId)                                            *)
(***************************************************************************)
\* lines 90-100: clearError, the window.ethereum check, the request
SwitchStart(target) ==
    /\ swPc = "idle"
    /\ IF ~hasEthereum
       THEN /\ state' = switchCatch(clearError(state), JsError("MetaMask not available"))
            /\ UNCHANGED <<swPc, swTarget, requests>>
       ELSE /\ state' = clearError(state)
            /\ swPc' = "awaitSwitch"
            /\ swTarget' = toString16(target)
            /\ requests' = requests \cup {Request(<<"switchNetwork">>, "wallet_switchEthereumChain")}
    /\ UNCHANGED <<marker, hasEthereum, walletAccounts, walletChain, connPc,
                   connAccount, autoPc, autoAccount, snapshot, restored>>
    /\ UNCHANGED disconnected
    /\ UNCHANGED notWalletVars

\* lines 97-100, 107-115: the wallet switches to the requested chain, or rejects
SwitchResolve ==
    /\ swPc = "awaitSwitch"
    /\ requests' = requests \ {Request(<<"switchNetwork">>, "wallet_switchEthereumChain")}
    /\ \/ /\ walletChain' = parseInt16(swTarget)
          /\ swPc' = "awaitNetwork"
          /\ UNCHANGED <<state, swTarget>>
       \/ /\ \E e \in RpcErrors : state' = switchCatch(state, e)
          /\ swPc' = "idle"
          /\ swTarget' = << >>
          /\ UNCHANGED walletChain
    /\ UNCHANGED <<marker, hasEthereum, walletAccounts, connPc, connAccount, autoPc,
                   autoAccount, snapshot, restored>>
    /\ UNCHANGED disconnected
    /\ UNCHANGED notWalletVars

\* lines 103-105, 107-115: provider.getNetwork() after the switch
SwitchNetwork ==
    /\ swPc = "awaitNetwork"
    /\ \/ state' = updateState(state, [chainId |-> Some(walletChain)])
       \/ \E e \in RpcErrors : state' = switchCatch(state, e)
    /\ swPc' = "idle"
    /\ swTarget' = << >>
    /\ UNCHANGED <<marker, hasEthereum, walletAccounts, walletChain, connPc,
                   connAccount, autoPc, autoAccount, requests, snapshot, restored>>
    /\ UNCHANGED disconnected
    /\ UNCHANGED notWalletVars

(***************************************************************************)
(* autoConnect(): the effect run once when the hook mounts                 *)
(***************************************************************************)
\* lines 121-127: autoConnect issues eth_accounts when the marker is stored and
\* window.ethereum exists
autoConnectStarts(m, eth) == m /\ eth

\* lines 125-129, 141-144: eth_accounts resolves with the authorised accounts,
\* or rejects and the marker is removed
AutoAccounts ==
    /\ autoPc = "awaitAccounts"
    /\ requests' = requests \ {Request(<<"autoConnect">>, "eth_accounts")}
    /\ \/ /\ IF Len(walletAccounts) > 0
             THEN /\ autoPc' = "awaitProvider"
                  /\ autoAccount' = walletAccounts[1]
             ELSE /\ autoPc' = "done"
                  /\ UNCHANGED autoAccount
          /\ UNCHANGED marker
       \/ /\ autoPc' = "done"
          /\ marker' = FALSE
          /\ UNCHANGED autoAccount
    /\ UNCHANGED <<state, hasEthereum, walletAccounts, walletChain, connPc,
                   connAccount, swPc, swTarget, snapshot, restored>>
    /\ UNCHANGED disconnected
    /\ UNCHANGED notWalletVars

\* lines 134-139: the update autoConnect applies
autoConnectUpdateNoChain(account, chain) ==
    [address |-> account, provider |-> "provider", signer |-> "signer"]

autoConnectUpdate(account, chain) ==
    [address |-> account, provider |-> "provider", signer |-> "signer",
     chainId |-> Some(chain)]

\* lines 130-144: getSigner() and getNetwork() resolve, then the state update;
\* or one of them rejects and the marker is removed
AutoProvider ==
    /\ autoPc = "awaitProvider"
    /\ \/ /\ state' = updateState(state, autoConnectUpdate(autoAccount, walletChain))
          /\ restored' = TRUE
          /\ UNCHANGED marker
       \/ /\ marker' = FALSE
          /\ UNCHANGED <<state, restored>>
    /\ autoPc' = "done"
    /\ autoAccount' = None
    /\ UNCHANGED <<hasEthereum, walletAccounts, walletChain, connPc, connAccount,
                   swPc, swTarget, requests, snapshot>>
    /\ UNCHANGED disconnected
    /\ UNCHANGED notWalletVars

(***************************************************************************)
(* Notifications pushed by the wallet and their handlers.  A notification  *)
(* arrives out of band: it may be late, so its payload need not be what    *)
(* the wallet reports now.                                                 *)
(***************************************************************************)
\* mutation of handleAccountsChanged: an empty list is ignored
handleAccountsChangedIgnoresEmpty(prev, accounts) ==
    IF Len(accounts) = 0 THEN prev
    ELSE updateState(prev, [address |-> accounts[1]])

\* lines 155-161: handleAccountsChanged
handleAccountsChanged(prev, accounts) ==
    IF Len(accounts) = 0 THEN disconnectState(prev)
    ELSE updateState(prev, [address |-> accounts[1]])

handleChainChanged(prev, chainId) ==
    updateState(prev, [chainId |-> Some(parseInt16(chainId))])

\* lines 155-161, 171: accountsChanged reaches its handler
AccountsChanged ==
    /\ hasEthereum
    /\ \E accounts \in AccountLists :
        /\ state' = handleAccountsChanged(state, accounts)
        /\ marker' = IF Len(accounts) = 0 THEN FALSE ELSE marker
        /\ disconnected' = IF Len(accounts) = 0 THEN TRUE ELSE disconnected
    /\ UNCHANGED <<hasEthereum, walletAccounts, walletChain, connPc, connAccount, swPc,
                   swTarget, autoPc, autoAccount, requests, snapshot, restored>>
    /\ UNCHANGED notWalletVars

\* lines 163-165, 172: chainChanged reaches its handler with the hex chain id
ChainChanged ==
    /\ hasEthereum
    /\ \E ch \in Chains : state' = handleChainChanged(state, toString16(ch))
    /\ UNCHANGED <<marker, hasEthereum, walletAccounts, walletChain, connPc,
                   connAccount, swPc, swTarget, autoPc, autoAccount, requests, snapshot, restored>>
    /\ UNCHANGED disconnected
    /\ UNCHANGED notWalletVars

\* lines 167-169, 173: disconnect reaches its handler
Disconnected ==
    /\ hasEthereum
    /\ state' = disconnectState(state)
    /\ marker' = FALSE
    /\ UNCHANGED <<hasEthereum, walletAccounts, walletChain, connPc, connAccount, swPc,
                   swTarget, autoPc, autoAccount, requests, snapshot, restored>>
    /\ disconnected' = TRUE
    /\ UNCHANGED notWalletVars

\* the user changes the authorised accounts or the network inside the wallet
WalletChanges ==
    /\ hasEthereum
    /\ \E accounts \in AccountLists, ch \in Chains :
        /\ <<accounts, ch>> # <<walletAccounts, walletChain>>
        /\ walletAccounts' = accounts
        /\ walletChain' = ch
    /\ UNCHANGED <<state, marker, hasEthereum, connPc, connAccount, swPc, swTarget,
                   autoPc, autoAccount, requests, snapshot, restored>>
    /\ UNCHANGED disconnected
    /\ UNCHANGED notWalletVars

(***************************************************************************)
(* Page reload: the hook is constructed again, localStorage is kept        *)
(***************************************************************************)
NoSnapshot == [address |-> None, chainId |-> Null, marker |-> FALSE]

Restart ==
    /\ snapshot' = [address |-> state.address, chainId |-> state.chainId,
                    marker |-> marker]
    /\ state' = EmptyWalletState
    /\ connPc' = [c \in ConnectIds |-> "idle"]
    /\ connAccount' = [c \in ConnectIds |-> None]
    /\ swPc' = "idle"
    /\ swTarget' = << >>
    /\ autoAccount' = None
    /\ restored' = FALSE
    /\ IF autoConnectStarts(marker, hasEthereum)
       THEN /\ autoPc' = "awaitAccounts"
            /\ requests' = {Request(<<"autoConnect">>, "eth_accounts")}
       ELSE /\ autoPc' = "done"
            /\ requests' = {}
    /\ UNCHANGED <<marker, hasEthereum, walletAccounts, walletChain>>
    /\ disconnected' = FALSE
    /\ UNCHANGED notWalletVars

WalletInit ==
    /\ state = EmptyWalletState
    /\ marker \in BOOLEAN
    /\ hasEthereum \in BOOLEAN
    /\ walletAccounts \in AccountLists
    /\ walletChain \in Chains
    /\ connPc = [c \in ConnectIds |-> "idle"]
    /\ connAccount = [c \in ConnectIds |-> None]
    /\ swPc = "idle"
    /\ swTarget = << >>
    /\ autoAccount = None
    /\ snapshot = NoSnapshot
    /\ restored = FALSE
    /\ disconnected = FALSE
    /\ IF autoConnectStarts(marker, hasEthereum)
       THEN /\ autoPc = "awaitAccounts"
            /\ requests = {Request(<<"autoConnect">>, "eth_accounts")}
       ELSE /\ autoPc = "done"
            /\ requests = {}

\* the hook between two page loads: every operation, handler and wallet step
WalletSteps ==
    \/ \E c \in ConnectIds : ConnectStart(c)
    \/ \E c \in ConnectIds : ConnectAccountsResolve(c)
    \/ \E c \in ConnectIds : ConnectAccountsReject(c)
    \/ \E c \in ConnectIds : ConnectProvider(c)
    \/ Disconnect
    \/ \E t \in Chains : SwitchStart(t)
    \/ SwitchResolve
    \/ SwitchNetwork
    \/ AutoAccounts
    \/ AutoProvider
    \/ AccountsChanged
    \/ ChainChanged
    \/ Disconnected
    \/ WalletChanges

\* one connect() at a time, across page loads
SessionSteps ==
    \/ ConnectStart(1)
    \/ ConnectAccountsResolve(1)
    \/ ConnectAccountsReject(1)
    \/ ConnectProvider(1)
    \/ Disconnect
    \/ AutoAccounts
    \/ AutoProvider
    \/ AccountsChanged
    \/ ChainChanged
    \/ Disconnected
    \/ WalletChanges
    \/ Restart

\* one connect() at a time, with switchNetwork() and the notifications
SwitchSteps ==
    \/ ConnectStart(1)
    \/ ConnectAccountsResolve(1)
    \/ ConnectAccountsReject(1)
    \/ ConnectProvider(1)
    \/ Disconnect
    \/ \E t \in Chains : SwitchStart(t)
    \/ SwitchResolve
    \/ SwitchNetwork
    \/ AutoAccounts
    \/ AutoProvider
    \/ AccountsChanged
    \/ ChainChanged
    \/ Disconnected
    \/ WalletChanges

\* the hook as the other components see it: mounted, never used
WalletIdle ==
    /\ state = EmptyWalletState
    /\ marker = FALSE
    /\ hasEthereum = TRUE
    /\ walletAccounts = << >>
    /\ walletChain = 1
    /\ connPc = [c \in ConnectIds |-> "idle"]
    /\ connAccount = [c \in ConnectIds |-> None]
    /\ swPc = "idle"
    /\ swTarget = << >>
    /\ autoPc = "done"
    /\ autoAccount = None
    /\ requests = {}
    /\ snapshot = NoSnapshot
    /\ restored = FALSE
    /\ disconnected = FALSE

(***************************************************************************)
(* Claims about the wallet hook                                            *)
(***************************************************************************)
AccountRequests == {r \in requests : r.method = "eth_requestAccounts"}
ConnectsAwaitingAccounts == {c \in ConnectIds : connPc[c] = "awaitAccounts"}

\* C1: when two connect() calls are in flight and neither has resolved, exactly
\* one eth_requestAccounts is outstanding at the wallet provider.
C1_OneAccountRequest ==
    Cardinality(ConnectsAwaitingAccounts) >= 2 => Cardinality(AccountRequests) = 1

\* C2: the state right after disconnect() is the empty ConnectionState (address,
\* chainId, error none, isConnecting false) and the marker is removed, whatever
\* the state before.
C2_DisconnectYieldsEmpty ==
    [][Disconnect => (state' = EmptyWalletState /\ marker' = FALSE)]_vars

\* C7: when the page was reloaded in a connected state with the marker stored,
\* and the wallet reports to autoConnect the same account and network as before
\* the reload, the restored address and chainId equal the pre-reload ones.
C7_RestoreRoundTrip ==
    [][(/\ ~restored /\ restored'
        /\ snapshot.marker /\ snapshot.address # None
        /\ autoAccount = snapshot.address
        /\ Some(walletChain) = snapshot.chainId)
       => (/\ state'.address = snapshot.address
           /\ state'.chainId = snapshot.chainId)]_vars

C7_Witness ==
    /\ restored
    /\ snapshot.marker /\ snapshot.address # None
    /\ state.address = snapshot.address
    /\ state.chainId = snapshot.chainId
    /\ autoPc = "done"

\* C19: when the marker is stored and eth_accounts resolves with no account,
\* autoConnect removes the marker and leaves the state empty.
C19_RestoreClearsMarker ==
    [][(/\ autoPc = "awaitAccounts"
        /\ autoPc' = "done"
        /\ Len(walletAccounts) = 0)
       => (/\ marker' = FALSE
           /\ state' = state)]_vars

\* a connect() invocation fails in this step: window.ethereum is absent,
\* eth_requestAccounts rejects, or it resolves with an empty list
ConnectFails ==
    \E c \in ConnectIds :
        \/ (ConnectStart(c) /\ ~hasEthereum)
        \/ ConnectAccountsReject(c)
        \/ (ConnectAccountsResolve(c) /\ Len(walletAccounts') = 0)

\* C20: after a connect() that failed, error holds the message of the failure,
\* address is none, isConnecting is false, and the marker was not written.
C20_ConnectFailureState ==
    [][ConnectFails
       => (/\ state'.error # None
           /\ state'.address = None
           /\ ~state'.isConnecting
           /\ marker' = marker)]_vars

\* the step in which connect() invocation c succeeds: lines 58-67
ConnectSucceeds(c) ==
    /\ connPc[c] = "awaitProvider"
    /\ connPc'[c] = "idle"
    /\ marker' = TRUE
    /\ state' = updateState(state,
                    [address |-> connAccount[c], provider |-> "provider",
                     signer |-> "signer", chainId |-> Some(walletChain),
                     isConnecting |-> FALSE])

\* C21: after a connect() that succeeded, address is the first account the wallet
\* returned, chainId the network it reports, isConnecting false, error none and
\* the marker stored, whatever completed while the connect was in flight.
C21_ConnectSuccessState ==
    [][\A c \in ConnectIds :
        ConnectSucceeds(c)
        => (/\ state'.address = connAccount[c]
            /\ state'.chainId = Some(walletChain)
            /\ ~state'.isConnecting
            /\ state'.error = None
            /\ marker')]_vars

SwitchErrors ==
    {"Network not added to MetaMask", "Network switch rejected by user",
     "Failed to switch network"}

\* C22: no step of switchNetwork changes address, provider, signer or
\* isConnecting; its first step only clears the error; the step that ends it
\* either sets chainId to the network the wallet reports and changes nothing
\* else, or sets error to one of the three messages and changes nothing else.
C22_SwitchNetworkFrame ==
    [][((\E t \in Chains : SwitchStart(t)) \/ SwitchResolve \/ SwitchNetwork)
       => (/\ state'.address = state.address
           /\ marker' = marker
           /\ \/ state' = state
              \/ (swPc = "idle" /\ swPc' = "awaitSwitch"
                  /\ state' = [state EXCEPT !.error = None])
              \/ (swPc = "awaitNetwork" /\ swPc' = "idle"
                  /\ state' = [state EXCEPT !.chainId = Some(walletChain)])
              \/ (swPc' = "idle"
                  /\ \E msg \in SwitchErrors : state' = [state EXCEPT !.error = msg]))]_vars

\* a switch failed on a connected hook: address and chainId are still there
C22_Witness ==
    /\ swPc = "idle"
    /\ state.error = "Network not added to MetaMask"
    /\ state.address = "0xa1"
    /\ state.chainId = Some(137)
    /\ marker

\* C23: an accountsChanged notification with an empty list leaves the state and
\* the marker disconnect() leaves; one with a non-empty list sets address to the
\* first entry and changes nothing else; and the same notification delivered
\* again changes nothing, at any point of an in-flight connect or switchNetwork.
C23_AccountsChangedIdempotent ==
    [][AccountsChanged
       => \E accounts \in AccountLists :
            /\ IF Len(accounts) = 0
               THEN /\ state' = disconnectState(state)
                    /\ marker' = FALSE
               ELSE /\ state' = [state EXCEPT !.address = accounts[1]]
                    /\ marker' = marker
            /\ handleAccountsChanged(state', accounts) = state']_vars

\* the notification arrived while a connect and a switch were in flight: only it
\* writes an address without a provider
C23_Witness ==
    /\ state.address = "0xa2"
    /\ state.provider = None
    /\ connPc[1] = "awaitAccounts"
    /\ swPc = "awaitSwitch"

\* a step of a connect() invocation that was started earlier
ConnectContinues ==
    \E c \in ConnectIds :
        \/ ConnectAccountsResolve(c)
        \/ ConnectAccountsReject(c)
        \/ ConnectProvider(c)

\* C27: once disconnect() has run and no connect() was started since, a connect()
\* that was in flight never sets the address or stores the marker again.
C27_DisconnectWins ==
    [][(/\ disconnected
        /\ state.address = None
        /\ ~marker
        /\ ConnectContinues)
       => (/\ state'.address = None
           /\ ~marker')]_vars



(***************************************************************************)
(* Failure values.  js is what the thrown value is: a plain "object", a    *)
(* "web3" error (instanceof Web3Error), "null", "undefined" or a bare      *)
(* "string".  code is "undefined", "n:<number>" or "s:<string>"; message   *)
(* and reason are Null or Some(...).  A message is the sequence of its     *)
(* words, so that includes() and the revert pattern are computed on it.    *)
(***************************************************************************)
ErrorTypes == {"USER_REJECTED", "INSUFFICIENT_FUNDS", "NETWORK_ERROR",
               "CONTRACT_ERROR", "VALIDATION_ERROR", "UNKNOWN_ERROR"}

Failure(js, type, code, message, reason) ==
    [js |-> js, type |-> type, code |-> code, message |-> message, reason |-> reason]

\* class Web3Error and its subclasses: the constructors and their defaults
Web3Error(type, message, code) == Failure("web3", type, code, Some(message), Null)

UserRejectedError(message) ==
    Web3Error("USER_REJECTED",
              IF message = Null THEN <<"Transaction rejected by user">> ELSE message[1],
              "n:4001")

InsufficientFundsError(message) ==
    Web3Error("INSUFFICIENT_FUNDS",
              IF message = Null THEN <<"Insufficient funds for transaction">> ELSE message[1],
              "s:INSUFFICIENT_FUNDS")

NetworkError(message) ==
    Web3Error("NETWORK_ERROR",
              IF message = Null THEN <<"Network connection failed">> ELSE message[1],
              "s:NETWORK_ERROR")

ContractError(message) == Web3Error("CONTRACT_ERROR", message, "s:CONTRACT_ERROR")

ValidationError(message) == Web3Error("VALIDATION_ERROR", message, "s:VALIDATION_ERROR")

\* message?.includes(word)
includes(message, word) ==
    /\ message # Null
    /\ \E i \in 1..Len(message[1]) : message[1][i] = word

\* a value is truthy: neither undefined nor the empty string
truthy(opt) == opt # Null /\ opt[1] # << >>

\* message.match(/revert (.+)'/): the leftmost "revert", a non-empty text, and the
\* last quote after it
extractRevertReason(message) ==
    LET m == message[1]
        starts == {i \in 1..Len(m) : /\ m[i] = "revert"
                                     /\ \E j \in (i + 2)..Len(m) : m[j] = "'"}
    IN IF starts = {} THEN <<"Unknown reason">>
       ELSE LET i == CHOOSE x \in starts : \A y \in starts : x <= y
                j == CHOOSE x \in (i + 2)..Len(m) :
                        /\ m[x] = "'"
                        /\ \A y \in (i + 2)..Len(m) : m[y] = "'" => y <= x
            IN SubSeq(m, i + 1, j - 1)

\* ErrorParser.parse throws a TypeError itself when it reads error.code of null
\* or undefined
parseThrows(error) == error.js \in {"null", "undefined"}

\* new Error(message)
JsFailure(message) == Failure("object", "none", "undefined", Some(message), Null)

TypeErrorValue ==
    Failure("object", "none", "undefined", Some(<<"Cannot read properties of null">>), Null)

\* ErrorParser.parse(error), for a value it does not throw on
parseUserRejectedLast(error) ==
    IF error.js = "web3" THEN error
    ELSE IF error.code = "s:INSUFFICIENT_FUNDS" THEN InsufficientFundsError(error.message)
    ELSE IF error.code = "s:NETWORK_ERROR" \/ includes(error.message, "network")
    THEN NetworkError(error.message)
    ELSE IF truthy(error.reason) \/ includes(error.message, "revert")
    THEN ContractError(<<"Contract reverted:">> \o
                       (IF truthy(error.reason) THEN error.reason[1]
                        ELSE extractRevertReason(error.message)))
    ELSE IF error.code = "s:UNPREDICTABLE_GAS_LIMIT"
    THEN ContractError(<<"Transaction would fail - check parameters">>)
    ELSE IF error.code = "n:4001" \/ error.code = "s:ACTION_REJECTED"
    THEN UserRejectedError(error.message)
    ELSE Web3Error("UNKNOWN_ERROR",
                   IF truthy(error.message) THEN error.message[1]
                   ELSE <<"An unexpected error occurred">>,
                   error.code)

parse(error) ==
    IF error.js = "web3" THEN error
    ELSE IF error.code = "n:4001" \/ error.code = "s:ACTION_REJECTED"
    THEN UserRejectedError(error.message)
    ELSE IF error.code = "s:INSUFFICIENT_FUNDS" THEN InsufficientFundsError(error.message)
    ELSE IF error.code = "s:NETWORK_ERROR" \/ includes(error.message, "network")
    THEN NetworkError(error.message)
    ELSE IF truthy(error.reason) \/ includes(error.message, "revert")
    THEN ContractError(<<"Contract reverted:">> \o
                       (IF truthy(error.reason) THEN error.reason[1]
                        ELSE extractRevertReason(error.message)))
    ELSE IF error.code = "s:UNPREDICTABLE_GAS_LIMIT"
    THEN ContractError(<<"Transaction would fail - check parameters">>)
    ELSE Web3Error("UNKNOWN_ERROR",
                   IF truthy(error.message) THEN error.message[1]
                   ELSE <<"An unexpected error occurred">>,
                   error.code)

(***************************************************************************)
(* The failure values an operation may throw                               *)
(***************************************************************************)
RawCodes == {"undefined", "n:4001", "s:ACTION_REJECTED", "s:INSUFFICIENT_FUNDS",
             "s:NETWORK_ERROR", "s:UNPREDICTABLE_GAS_LIMIT", "s:CALL_EXCEPTION"}

RawMessages ==
    { Null,
      Some(<< >>),
      Some(<<"user", "denied", "transaction">>),
      Some(<<"could", "not", "detect", "network">>),
      Some(<<"execution", "revert", "Not", "owner", "'">>),
      Some(<<"transaction", "revert">>),
      Some(<<"something", "failed">>) }

RawReasons == {Null, Some(<< >>), Some(<<"Not owner">>), Some(<<"request", "Timeout">>)}

RawObjects ==
    {Failure("object", "none", c, m, r) : c \in RawCodes, m \in RawMessages, r \in RawReasons}

\* an object thrown by the wallet or the library without any of the fields read,
\* a bare string, null and undefined
OddValues ==
    {Failure(js, "none", "undefined", Null, Null) : js \in {"string", "null", "undefined"}}

\* the Web3Error values the constructors of the module and parse itself produce
Web3Errors ==
    {UserRejectedError(m) : m \in RawMessages} \cup
    {InsufficientFundsError(m) : m \in RawMessages} \cup
    {NetworkError(m) : m \in RawMessages} \cup
    {ContractError(<<"Contract reverted:", "Not owner">>),
     ValidationError(<<"Invalid address">>),
     Web3Error("UNKNOWN_ERROR", <<"something", "failed">>, "undefined")}

FailureValues == RawObjects \cup OddValues \cup Web3Errors

\* the value carries the signal that the user declined
UserDeclined(error) == error.code = "n:4001" \/ error.code = "s:ACTION_REJECTED"


(***************************************************************************)
(* ErrorHandler.handleWithRetry(operation, shouldRetry)                    *)
(***************************************************************************)
MaxRetriesBound == 3
RetryDelay == 1000

NoFailure == Failure("none", "none", "undefined", Null, Null)

\* mutation of pow2: the delay grows linearly
pow2Linear(n) == n + 1

\* Math.pow(2, attempt)
RECURSIVE pow2(_)
pow2(n) == IF n = 0 THEN 1 ELSE 2 * pow2(n - 1)

\* the shouldRetry argument: absent, or a predicate that answers false, true, or
\* true for network errors only
ShouldRetryArgs == {"undefined", "never", "always", "networkOnly"}

\* mutation of shouldRetry: the answer of the predicate is taken as true
shouldRetryAlways(predicate, error) == TRUE

\* what the supplied predicate answers
shouldRetry(predicate, error) ==
    \/ predicate = "always"
    \/ (predicate = "networkOnly" /\ error.type = "NETWORK_ERROR")

RetryIdle ==
    /\ rtPc = "idle"
    /\ rtMaxRetries = 0
    /\ rtShouldRetry = "undefined"
    /\ rtAttempt = 0
    /\ rtCalls = 0
    /\ rtLastRaw = NoFailure
    /\ rtLastError = NoFailure
    /\ rtThrown = NoFailure
    /\ rtWaits = << >>
    /\ rtPredCalls = 0
    /\ rtPredArg = NoFailure

\* new ErrorHandler(maxRetries) and the arguments of one handleWithRetry call
RetryInit ==
    /\ rtPc = "idle"
    /\ rtMaxRetries \in 0..MaxRetriesBound
    /\ rtShouldRetry \in ShouldRetryArgs
    /\ rtAttempt = 0
    /\ rtCalls = 0
    /\ rtLastRaw = NoFailure
    /\ rtLastError = NoFailure
    /\ rtThrown = NoFailure
    /\ rtWaits = << >>
    /\ rtPredCalls = 0
    /\ rtPredArg = NoFailure

\* lines 486-488: the call, up to the first operation()
HandleWithRetry ==
    /\ rtPc = "idle"
    /\ rtPc' = "running"
    /\ UNCHANGED <<rtMaxRetries, rtShouldRetry, rtAttempt, rtCalls, rtLastRaw,
                   rtLastError, rtThrown, rtWaits, rtPredCalls, rtPredArg>>
    /\ UNCHANGED notRetryVars

\* line 490: operation() resolves and its result is returned
OperationResolves ==
    /\ rtPc = "running"
    /\ rtCalls' = rtCalls + 1
    /\ rtPc' = "returned"
    /\ UNCHANGED <<rtMaxRetries, rtShouldRetry, rtAttempt, rtLastRaw, rtLastError,
                   rtThrown, rtWaits, rtPredCalls, rtPredArg>>
    /\ UNCHANGED notRetryVars

\* lines 491-511: operation() rejects with error: the whole catch block
OperationRejects ==
    /\ rtPc = "running"
    /\ rtCalls' = rtCalls + 1
    /\ \E error \in FailureValues :
        /\ rtLastRaw' = error
        /\ IF parseThrows(error)
           THEN /\ rtPc' = "thrown"
                /\ rtThrown' = TypeErrorValue
                /\ UNCHANGED <<rtLastError, rtWaits, rtPredCalls, rtPredArg>>
           ELSE LET lastError == parse(error)
                    asked == rtShouldRetry # "undefined"
                             /\ lastError.type # "USER_REJECTED"
                    stop == \/ lastError.type = "USER_REJECTED"
                            \/ (asked /\ ~shouldRetry(rtShouldRetry, lastError))
                            \/ rtAttempt = rtMaxRetries
                IN /\ rtLastError' = lastError
                   /\ rtPredCalls' = IF asked THEN rtPredCalls + 1 ELSE rtPredCalls
                   /\ rtPredArg' = IF asked THEN lastError ELSE rtPredArg
                   /\ IF stop
                      THEN /\ rtPc' = "thrown"
                           /\ rtThrown' = lastError
                           /\ UNCHANGED rtWaits
                      ELSE /\ rtPc' = "waiting"
                           /\ rtWaits' = Append(rtWaits, RetryDelay * pow2(rtAttempt))
                           /\ UNCHANGED rtThrown
    /\ UNCHANGED <<rtMaxRetries, rtShouldRetry, rtAttempt>>
    /\ UNCHANGED notRetryVars

\* lines 488, 510: the wait is over, attempt++ and the next operation()
WaitElapsed ==
    /\ rtPc = "waiting"
    /\ rtAttempt' = rtAttempt + 1
    /\ rtPc' = "running"
    /\ UNCHANGED <<rtMaxRetries, rtShouldRetry, rtCalls, rtLastRaw, rtLastError,
                   rtThrown, rtWaits, rtPredCalls, rtPredArg>>
    /\ UNCHANGED notRetryVars

RetrySteps ==
    \/ HandleWithRetry
    \/ OperationResolves
    \/ OperationRejects
    \/ WaitElapsed

(***************************************************************************)
(* Claims about the classifier and the retry helper                        *)
(***************************************************************************)
\* C3: every failure value carrying the user-declined signal (code 4001 or
\* 'ACTION_REJECTED') is classified USER_REJECTED, and an operation() that fails
\* with one is not invoked again: handleWithRetry throws the classified error at
\* once, without a wait, whatever shouldRetry and maxRetries are.
C3_UserDeclinedOneAttempt ==
    /\ \A e \in FailureValues :
        UserDeclined(e) /\ ~parseThrows(e) => parse(e).type = "USER_REJECTED"
    /\ UserDeclined(rtLastRaw) =>
        /\ rtPc = "thrown"
        /\ rtLastError.type = "USER_REJECTED"
        /\ rtThrown = rtLastError
        /\ rtCalls = rtAttempt + 1
        /\ Len(rtWaits) = rtAttempt
        /\ (rtAttempt = 0 => rtCalls = 1)

C3_Witness ==
    /\ rtPc = "thrown"
    /\ UserDeclined(rtLastRaw)
    /\ rtShouldRetry = "always"
    /\ rtMaxRetries >= 1
    /\ rtCalls = 1

\* C15: without a predicate, an operation that fails on every attempt with an
\* error other than USER_REJECTED is invoked maxRetries + 1 times, with a wait of
\* retryDelay * 2^k after attempt k for k < maxRetries and none after the last,
\* and the classified error of the last attempt is thrown; an attempt that
\* succeeds ends the call with no further attempt or wait.
C15_RetriesThenThrows ==
    rtShouldRetry = "undefined" =>
        /\ (/\ rtPc = "thrown"
            /\ ~parseThrows(rtLastRaw)
            /\ rtLastError.type # "USER_REJECTED")
           => /\ rtCalls = rtMaxRetries + 1
              /\ rtWaits = [k \in 1..rtMaxRetries |-> RetryDelay * 2^(k - 1)]
              /\ rtThrown = parse(rtLastRaw)
        /\ rtPc = "returned" =>
              /\ rtCalls = rtAttempt + 1
              /\ Len(rtWaits) = rtAttempt
              /\ rtThrown = NoFailure

\* the default: 3 retries, 4 invocations, waits of 1000, 2000 and 4000 ms
C15_Witness ==
    /\ rtPc = "thrown"
    /\ rtShouldRetry = "undefined"
    /\ rtMaxRetries = 3
    /\ rtCalls = 4
    /\ rtWaits = <<1000, 2000, 4000>>
    /\ rtThrown.type = "NETWORK_ERROR"

\* C16: a supplied predicate is called once per failed attempt with the
\* classified error, and when it answers false the classified error is thrown at
\* once: no further attempt and no wait.
C16_PredicateStops ==
    (/\ rtShouldRetry # "undefined"
     /\ rtPc \in {"thrown", "waiting"}
     /\ ~parseThrows(rtLastRaw)
     /\ rtLastError.type # "USER_REJECTED")
    => /\ rtPredCalls = rtCalls
       /\ rtPredArg = parse(rtLastRaw)
       /\ rtPredArg.js = "web3"
       /\ (\/ rtShouldRetry = "never"
           \/ (rtShouldRetry = "networkOnly" /\ parse(rtLastRaw).type # "NETWORK_ERROR"))
          => /\ rtPc = "thrown"
             /\ rtThrown = parse(rtLastRaw)
             /\ rtCalls = rtAttempt + 1
             /\ Len(rtWaits) = rtAttempt

\* the predicate let one network error through and stopped on a contract error
C16_Witness ==
    /\ rtPc = "thrown"
    /\ rtShouldRetry = "networkOnly"
    /\ rtMaxRetries = 3
    /\ rtCalls = 2
    /\ rtPredCalls = 2
    /\ rtWaits = <<1000>>
    /\ rtLastRaw.js = "object"
    /\ rtThrown.type = "CONTRACT_ERROR"


(***************************************************************************)
(* GasUtils.estimateGasWithBuffer(contract, method, args, bufferPercent)   *)
(***************************************************************************)
DefaultBufferPercent == 20
MaxEstimate == 120

\* what estimateGas may resolve with
Estimates == 0..MaxEstimate \cup {100000}
BufferPercents == {0, 10, DefaultBufferPercent}

\* line 97: gasEstimate * BigInt(100 + bufferPercent) / 100n; bigint division
\* truncates, and the operands are not negative
withBufferDivideFirst(estimate, bufferPercent) ==
    (estimate \div 100) * (100 + bufferPercent)

withBuffer(estimate, bufferPercent) ==
    (estimate * (100 + bufferPercent)) \div 100

GasIdle ==
    /\ gasPc = "idle"
    /\ gasBuffer = DefaultBufferPercent
    /\ gasEstimate = 0
    /\ gasResult = 0

GasInit ==
    /\ gasPc = "idle"
    /\ gasBuffer \in BufferPercents
    /\ gasEstimate = 0
    /\ gasResult = 0

\* lines 89-96: the call, up to the await of estimateGas
EstimateGasWithBuffer ==
    /\ gasPc = "idle"
    /\ gasPc' = "estimating"
    /\ UNCHANGED <<gasBuffer, gasEstimate, gasResult>>
    /\ UNCHANGED notGasVars

\* lines 96-97: estimateGas resolves and the buffered value is returned
GasEstimateResolves ==
    /\ gasPc = "estimating"
    /\ \E e \in Estimates :
        /\ gasEstimate' = e
        /\ gasResult' = withBuffer(e, gasBuffer)
    /\ gasPc' = "returned"
    /\ UNCHANGED gasBuffer
    /\ UNCHANGED notGasVars

\* lines 98-101: estimateGas rejects; 'Unable to estimate gas for transaction'
GasEstimateRejects ==
    /\ gasPc = "estimating"
    /\ gasPc' = "thrown"
    /\ UNCHANGED <<gasBuffer, gasEstimate, gasResult>>
    /\ UNCHANGED notGasVars

GasSteps ==
    \/ EstimateGasWithBuffer
    \/ GasEstimateResolves
    \/ GasEstimateRejects

\* C5: with the default margin the returned gas limit is floor(e * 120 / 100) for
\* the estimate e: 100 * limit <= 120 * e < 100 * (limit + 1); it is never
\* smaller than e; and an estimate of 100,000 gives exactly 120,000.
C5_DefaultMargin ==
    (gasPc = "returned" /\ gasBuffer = 20) =>
        /\ 100 * gasResult <= 120 * gasEstimate
        /\ 120 * gasEstimate < 100 * (gasResult + 1)
        /\ gasResult >= gasEstimate
        /\ (gasEstimate = 100000 => gasResult = 120000)

C5_Witness ==
    /\ gasPc = "returned"
    /\ gasBuffer = 20
    /\ gasEstimate = 100000
    /\ gasResult = 120000

(***************************************************************************)
(* TransactionManager: one state record, its listeners, executeTransaction *)
(***************************************************************************)
MaxTxCalls == 2
MaxTxRuns == 3

TxIds == 1..MaxTxCalls

\* what estimateGas resolves with in a submission
TxEstimates == {21000, 100000}

\* receipt.status of a mined transaction: 1 success, 0 reverted
ReceiptStatuses == {0, 1}

IdleTransactionState == [hash |-> Null, status |-> "idle", error |-> Null, receipt |-> Null]

\* the failure values estimateGas, the send and wait() reject with
TxFailures ==
    {Failure("object", "none", c, Some(<<"transaction", "failed">>), r) :
        c \in {"undefined", "s:USER_REJECTED", "s:INSUFFICIENT_FUNDS", "s:CALL_EXCEPTION"},
        r \in {Null, Some(<<"Not owner">>)}}

\* TransactionManager.parseError
parseError(error) ==
    IF error.code = "s:USER_REJECTED" THEN <<"Transaction rejected by user">>
    ELSE IF error.code = "s:INSUFFICIENT_FUNDS" THEN <<"Insufficient funds">>
    ELSE IF truthy(error.reason) THEN error.reason[1]
    ELSE <<"Transaction failed">>

\* mutation of executeCatch: the message is recorded, the status is not
executeCatchKeepsStatus(prev, error) ==
    updateState(prev, [error |-> Some(parseError(error))])

\* the catch block of executeTransaction: the state passed to updateState
executeCatch(prev, error) ==
    updateState(prev, [status |-> "error", error |-> Some(parseError(error))])

\* lines 185-190: the update made when transaction.wait() resolves with receipt
receiptUpdate(prev, receipt) ==
    updateState(prev, [status |-> "success", receipt |-> Some(receipt)])

\* lines 169-173: updateState({status: 'pending', error: undefined}), then the
\* estimateGas call
ExecuteTransaction(c) ==
    /\ txPc[c] = "idle"
    /\ txSeq < MaxTxRuns
    /\ txSeq' = txSeq + 1
    /\ txRun' = [txRun EXCEPT ![c] = txSeq + 1]
    /\ txCurrent' = c
    /\ txAccepted' = [txAccepted EXCEPT ![c] = FALSE]
    /\ txOutcome' = [txOutcome EXCEPT ![c] = "none"]
    /\ txState' = updateState(txState, [status |-> "pending", error |-> Null])
    /\ txSeen' = txState'
    /\ txThrown' = NoFailure
    /\ txPc' = [txPc EXCEPT ![c] = "estimating"]
    /\ UNCHANGED <<txGasLimit, stPc, stHash, stReceipt, stThrown>>
    /\ UNCHANGED notTxVars

\* lines 173-177: estimateGas resolves, the gas limit, the transaction is sent
EstimateResolves(c) ==
    /\ txPc[c] = "estimating"
    /\ \E e \in TxEstimates :
        txGasLimit' = [txGasLimit EXCEPT ![c] = (e * 120) \div 100]
    /\ txPc' = [txPc EXCEPT ![c] = "sending"]
    /\ UNCHANGED <<txState, txSeen, txRun, txAccepted, txOutcome, txCurrent, txSeq,
                   stPc, stHash, stReceipt, stThrown, txThrown>>
    /\ UNCHANGED notTxVars

\* lines 173, 177, 185, 193-199: estimateGas, the send or wait() rejects
TxRejects(c) ==
    /\ txPc[c] \in {"estimating", "sending", "waiting"}
    /\ \E error \in TxFailures :
        /\ txState' = executeCatch(txState, error)
        /\ txThrown' = error
    /\ txSeen' = txState'
    /\ txOutcome' = [txOutcome EXCEPT ![c] = "thrown"]
    /\ txPc' = [txPc EXCEPT ![c] = "idle"]
    /\ UNCHANGED <<txRun, txGasLimit, txAccepted, txCurrent, txSeq,
                   stPc, stHash, stReceipt, stThrown>>
    /\ UNCHANGED notTxVars

\* lines 177-182: the network accepts the transaction and assigns its hash
SendResolves(c) ==
    /\ txPc[c] = "sending"
    /\ txAccepted' = [txAccepted EXCEPT ![c] = TRUE]
    /\ txState' = updateState(txState, [status |-> "pending", hash |-> Some(txRun[c])])
    /\ txSeen' = txState'
    /\ txPc' = [txPc EXCEPT ![c] = "waiting"]
    /\ UNCHANGED <<txRun, txGasLimit, txOutcome, txCurrent, txSeq,
                   stPc, stHash, stReceipt, stThrown, txThrown>>
    /\ UNCHANGED notTxVars

\* lines 185-192: transaction.wait() resolves with the mined receipt
WaitResolves(c) ==
    /\ txPc[c] = "waiting"
    /\ \E st \in ReceiptStatuses :
        txState' = receiptUpdate(txState, [hash |-> txRun[c], status |-> st])
    /\ txSeen' = txState'
    /\ txOutcome' = [txOutcome EXCEPT ![c] = "returned"]
    /\ txPc' = [txPc EXCEPT ![c] = "idle"]
    /\ UNCHANGED <<txRun, txGasLimit, txAccepted, txCurrent, txSeq,
                   stPc, stHash, stReceipt, stThrown, txThrown>>
    /\ UNCHANGED notTxVars

(***************************************************************************)
(* SecureTransactionService.executeSecureTransaction(signer, transaction)  *)
(***************************************************************************)
\* SECURITY_CONFIG.SUPPORTED_NETWORKS
SUPPORTED_NETWORKS == {1, 5, 137, 80001}

\* the networks the signer's provider may report: two supported ones and Sepolia
ServiceChains == {1, 137, 11155111}

\* what tx.wait(requireConfirmations) resolves with: null or a receipt
WaitResults == {Null} \cup {Some([status |-> st]) : st \in ReceiptStatuses}

\* lines 1284-1285: the call, up to the await of getNetwork
ExecuteSecureTransaction ==
    /\ stPc = "idle"
    /\ stPc' = "awaitNetwork"
    /\ UNCHANGED <<stHash, stReceipt, stThrown>>
    /\ UNCHANGED <<txState, txSeen, txPc, txRun, txGasLimit, txAccepted, txOutcome,
                   txCurrent, txSeq, txThrown>>
    /\ UNCHANGED notTxVars

\* lines 1285-1291: the network check, then signer.sendTransaction
StNetworkResolves ==
    /\ stPc = "awaitNetwork"
    /\ \E chain \in ServiceChains :
        IF chain \in SUPPORTED_NETWORKS
        THEN /\ stPc' = "awaitSend"
             /\ UNCHANGED stThrown
        ELSE /\ stPc' = "thrown"
             /\ stThrown' = JsFailure(<<"Transaction", "attempted", "on", "unsupported",
                                        "network">>)
    /\ UNCHANGED <<stHash, stReceipt>>
    /\ UNCHANGED <<txState, txSeen, txPc, txRun, txGasLimit, txAccepted, txOutcome,
                   txCurrent, txSeq, txThrown>>
    /\ UNCHANGED notTxVars

\* line 1291: the signer accepts the transaction and returns its hash
StSendResolves ==
    /\ stPc = "awaitSend"
    /\ stHash' = Some(1)
    /\ stPc' = "awaitReceipt"
    /\ UNCHANGED <<stReceipt, stThrown>>
    /\ UNCHANGED <<txState, txSeen, txPc, txRun, txGasLimit, txAccepted, txOutcome,
                   txCurrent, txSeq, txThrown>>
    /\ UNCHANGED notTxVars

\* lines 1285, 1291, 1295: getNetwork, sendTransaction or tx.wait rejects; the
\* rejection leaves the function as it is
StRejects ==
    /\ stPc \in {"awaitNetwork", "awaitSend", "awaitReceipt"}
    /\ \E error \in TxFailures : stThrown' = error
    /\ stPc' = "thrown"
    /\ UNCHANGED <<stHash, stReceipt>>
    /\ UNCHANGED <<txState, txSeen, txPc, txRun, txGasLimit, txAccepted, txOutcome,
                   txCurrent, txSeq, txThrown>>
    /\ UNCHANGED notTxVars

\* lines 1294-1309: tx.wait wins the race; the receipt checks
StWaitResolves ==
    /\ stPc = "awaitReceipt"
    /\ \E receipt \in WaitResults :
        /\ stReceipt' = receipt
        /\ IF receipt = Null
           THEN /\ stPc' = "thrown"
                /\ stThrown' = JsFailure(<<"Transaction", "failed", "-", "no", "receipt">>)
           ELSE IF receipt[1].status = 0
           THEN /\ stPc' = "thrown"
                /\ stThrown' = JsFailure(<<"Transaction", "revert", "ed">>)
           ELSE /\ stPc' = "returned"
                /\ UNCHANGED stThrown
    /\ UNCHANGED stHash
    /\ UNCHANGED <<txState, txSeen, txPc, txRun, txGasLimit, txAccepted, txOutcome,
                   txCurrent, txSeq, txThrown>>
    /\ UNCHANGED notTxVars

\* lines 1296-1298: the Error the timer rejects with
TimeoutFailure == JsFailure(<<"Transaction", "timeout">>)

\* lines 1296-1298: the timer wins the race
StTimeout ==
    /\ stPc = "awaitReceipt"
    /\ stPc' = "thrown"
    /\ stThrown' = TimeoutFailure
    /\ UNCHANGED <<stHash, stReceipt>>
    /\ UNCHANGED <<txState, txSeen, txPc, txRun, txGasLimit, txAccepted, txOutcome,
                   txCurrent, txSeq, txThrown>>
    /\ UNCHANGED notTxVars

NotSeen == [hash |-> Null, status |-> "unobserved", error |-> Null, receipt |-> Null]

TxInit ==
    /\ txState = IdleTransactionState
    /\ txSeen = NotSeen
    /\ txPc = [c \in TxIds |-> "idle"]
    /\ txRun = [c \in TxIds |-> 0]
    /\ txGasLimit = [c \in TxIds |-> 0]
    /\ txAccepted = [c \in TxIds |-> FALSE]
    /\ txOutcome = [c \in TxIds |-> "none"]
    /\ txCurrent = 0
    /\ txSeq = 0
    /\ txThrown = NoFailure
    /\ stPc = "idle"
    /\ stHash = Null
    /\ stReceipt = Null
    /\ stThrown = NoFailure

TxIdle == TxInit

TxSteps ==
    \/ \E c \in TxIds : ExecuteTransaction(c)
    \/ \E c \in TxIds : EstimateResolves(c)
    \/ \E c \in TxIds : TxRejects(c)
    \/ \E c \in TxIds : SendResolves(c)
    \/ \E c \in TxIds : WaitResolves(c)
    \/ ExecuteSecureTransaction
    \/ StNetworkResolves
    \/ StSendResolves
    \/ StRejects
    \/ StWaitResolves
    \/ StTimeout

\* one executeTransaction() at a time on one manager
SubmitSteps ==
    \/ ExecuteTransaction(1)
    \/ EstimateResolves(1)
    \/ TxRejects(1)
    \/ SendResolves(1)
    \/ WaitResolves(1)

(***************************************************************************)
(* Claims about the transaction record                                     *)
(***************************************************************************)
\* C4: a submission whose mined receipt has status 0 never ends in success: the
\* manager's record is not 'success' with such a receipt, and the secure service
\* does not return one.
C4_NoSuccessOnRevert ==
    /\ (txState.status = "success" => txState.receipt[1].status # 0)
    /\ (stPc = "returned" => stReceipt[1].status # 0)

\* the order idle < pending (estimating, submitted) < success, error
statusRank(status) ==
    IF status = "idle" THEN 0 ELSE IF status = "pending" THEN 1 ELSE 2

\* C9: the status of the record only moves forward along idle -> estimating ->
\* pending -> {confirmed | failed}, and confirmed and failed are terminal.
C9_StatusMonotonic ==
    [][/\ statusRank(txState'.status) >= statusRank(txState.status)
       /\ (txState.status \in {"success", "error"} => txState'.status = txState.status)]_vars

\* C10: in every state passed to a listener, hash is set if and only if the
\* network accepted the submission of the current transaction.
C10_HashIffAccepted ==
    txSeen # NotSeen =>
        (txSeen.hash # Null <=> (txCurrent # 0 /\ txAccepted[txCurrent]))

\* C17: whatever executeTransaction throws to its caller is a classified error,
\* never the failure value the wallet or the library rejected with.
C17_NoRawFailureEscapes ==
    txThrown # NoFailure =>
        /\ txThrown.js = "web3"
        /\ txThrown.type \in ErrorTypes

\* C18: when the wait for confirmations times out, the failure is classified
\* NETWORK_ERROR and the hash obtained at submission stays populated.
C18_TimeoutIsNetworkError ==
    (stPc = "thrown" /\ stThrown = TimeoutFailure) =>
        /\ parse(stThrown).type = "NETWORK_ERROR"
        /\ stHash # Null

\* the moves of one invocation: estimateGas is issued on entering "estimating",
\* the send on entering "sending", wait() on entering "waiting"
SubmissionMoves ==
    {<<"idle", "estimating">>, <<"estimating", "sending">>, <<"sending", "waiting">>,
     <<"estimating", "idle">>, <<"sending", "idle">>, <<"waiting", "idle">>}

MaxCalls == 4
MaxBatchSize == 3

\* the documented scenario: 25 calls in batches of 10
ManyCalls == 25
DefaultBatchSize == 10

CallCounts == 0..MaxCalls \cup {ManyCalls}
BatchSizes == 1..MaxBatchSize \cup {DefaultBatchSize}

\* which calls reject: any set for the short lists, at most one call for the long one
FailingSets(n) ==
    IF n <= MaxCalls THEN SUBSET (0..(n - 1))
    ELSE {{}} \cup {{k} : k \in 0..(n - 1)}

\* what contract[method](...args) of call k resolves with; distinct per call
valueOf(k) == 1000 + k

min(a, b) == IF a < b THEN a ELSE b

\* mutation of slice: the batch is one call short
sliceShort(len, start, end) == start..(min(end, len) - 2)

\* calls.slice(i, i + batchSize): the indices of the calls in the batch
slice(len, start, end) == start..(min(end, len) - 1)

PendingPromise == [status |-> "pending", value |-> Null]

\* batch.map(async ...): one pending promise per call of the batch
batchPromises(len, i, batchSize) ==
    [k \in slice(len, i, i + batchSize) |-> PendingPromise]

\* batchResults.forEach: the pushes, in the order of the batch
RECURSIVE pushAll(_, _, _, _)
pushAll(results, batch, k, end) ==
    IF k >= end \/ k \notin DOMAIN batch THEN results
    ELSE pushAll(Append(results,
                        IF batch[k].status = "fulfilled" THEN batch[k].value ELSE Null),
                 batch, k + 1, end)

\* lines 274-289: the call; the first batch is mapped, or the loop is not entered
Multicall ==
    /\ mcPc = "idle"
    /\ mcResults' = << >>
    /\ mcI' = 0
    /\ IF 0 < mcLen
       THEN /\ mcBatch' = batchPromises(mcLen, 0, mcBatchSize)
            /\ mcPc' = "batch"
       ELSE /\ mcBatch' = << >>
            /\ mcPc' = "returned"
    /\ UNCHANGED <<mcLen, mcBatchSize, mcFailing>>
    /\ UNCHANGED notMcVars

\* lines 280-282: the method of call k resolves and the mapped function returns
\* its value
CallResolves(k) ==
    /\ mcPc = "batch"
    /\ k \in DOMAIN mcBatch
    /\ mcBatch[k].status = "pending"
    /\ k \notin mcFailing
    /\ mcBatch' = [mcBatch EXCEPT ![k] = [status |-> "fulfilled", value |-> Some(valueOf(k))]]
    /\ UNCHANGED <<mcPc, mcLen, mcBatchSize, mcFailing, mcI, mcResults>>
    /\ UNCHANGED notMcVars

\* lines 283-286: the method of call k rejects; the catch returns null
CallRejects(k) ==
    /\ mcPc = "batch"
    /\ k \in DOMAIN mcBatch
    /\ mcBatch[k].status = "pending"
    /\ k \in mcFailing
    /\ mcBatch' = [mcBatch EXCEPT ![k] = [status |-> "fulfilled", value |-> Null]]
    /\ UNCHANGED <<mcPc, mcLen, mcBatchSize, mcFailing, mcI, mcResults>>
    /\ UNCHANGED notMcVars

\* lines 289-297 and the loop header: Promise.allSettled resolves once every
\* promise of the batch has settled; the results are pushed; the next batch is
\* mapped or the function returns
BatchSettles ==
    /\ mcPc = "batch"
    /\ \A k \in DOMAIN mcBatch : mcBatch[k].status # "pending"
    /\ mcResults' = pushAll(mcResults, mcBatch, mcI, mcI + mcBatchSize)
    /\ mcI' = mcI + mcBatchSize
    /\ IF mcI + mcBatchSize < mcLen
       THEN /\ mcBatch' = batchPromises(mcLen, mcI + mcBatchSize, mcBatchSize)
            /\ UNCHANGED mcPc
       ELSE /\ mcBatch' = << >>
            /\ mcPc' = "returned"
    /\ UNCHANGED <<mcLen, mcBatchSize, mcFailing>>
    /\ UNCHANGED notMcVars

McIdle ==
    /\ mcPc = "idle"
    /\ mcLen = 0
    /\ mcBatchSize = DefaultBatchSize
    /\ mcFailing = {}
    /\ mcI = 0
    /\ mcBatch = << >>
    /\ mcResults = << >>

McInit ==
    /\ mcPc = "idle"
    /\ mcLen \in CallCounts
    /\ mcBatchSize \in BatchSizes
    /\ mcFailing \in FailingSets(mcLen)
    /\ mcI = 0
    /\ mcBatch = << >>
    /\ mcResults = << >>

McSteps ==
    \/ Multicall
    \/ \E k \in 0..(ManyCalls - 1) : CallResolves(k)
    \/ \E k \in 0..(ManyCalls - 1) : CallRejects(k)
    \/ BatchSettles

\* C6: multicall returns a list as long as the input in which position i holds the
\* result of call i, or null when call i failed, whatever the batch size and
\* whichever calls fail.
C6_MulticallPositions ==
    mcPc = "returned" =>
        /\ Len(mcResults) = mcLen
        /\ \A i \in 0..(mcLen - 1) :
            mcResults[i + 1] = IF i \in mcFailing THEN Null ELSE Some(valueOf(i))

\* 25 calls, batch size 10, call 14 fails: null at index 14 only
C6_Witness ==
    /\ mcPc = "returned"
    /\ mcLen = 25
    /\ mcBatchSize = 10
    /\ mcFailing = {14}
    /\ Len(mcResults) = 25
    /\ mcResults[15] = Null
    /\ \A i \in (0..24) \ {14} : mcResults[i + 1] = Some(valueOf(i))

(***************************************************************************)
(* AddressValidator and SecureContractService.secureTransfer               *)
(***************************************************************************)
\* A JavaScript value passed as an address.  A string is described by what the
\* address format looks at: whether it starts with "0x", how many characters
\* follow, whether they are all hexadecimal digits, their letter case ("lower",
\* "upper", "checksum": mixed with the right checksum, "badsum": mixed with a
\* wrong one) and whether they are all zeros.
AddressLength == 40

StringValue(prefix, digits, hex, case, zero) ==
    [js |-> "string", prefix |-> prefix, digits |-> digits, hex |-> hex,
     case |-> case, zero |-> zero]

OtherValue(js, isTruthy) ==
    [js |-> js, prefix |-> FALSE, digits |-> 0, hex |-> FALSE, case |-> "lower",
     zero |-> isTruthy]

\* undefined, null, 0, 42, {}; for these the zero field holds the truthiness
NonStrings ==
    {OtherValue("undefined", FALSE), OtherValue("object", FALSE),
     OtherValue("number", FALSE), OtherValue("number", TRUE), OtherValue("object", TRUE)}

\* '', '0x', '0x123', 'invalid', addresses of 39, 40 and 41 digits, with and
\* without the prefix, in each letter case, and the zero address
DigitCounts == {0, 3, 7, AddressLength - 1, AddressLength, AddressLength + 1}

Strings ==
    {StringValue(prefix, digits, hex, case, FALSE) :
        prefix \in BOOLEAN, digits \in DigitCounts, hex \in BOOLEAN,
        case \in {"lower", "checksum", "badsum"}}
    \cup {StringValue(TRUE, AddressLength, TRUE, "lower", TRUE)}

AddressInputs == NonStrings \cup Strings

\* the JavaScript test !address
falsy(address) ==
    IF address.js = "string" THEN ~address.prefix /\ address.digits = 0
    ELSE ~address.zero

\* whether ethers.getAddress(address) throws: it takes a string of 40 hexadecimal
\* digits, with or without "0x", whose mixed-case form carries the right checksum
getAddressThrows(address) ==
    \/ address.js # "string"
    \/ address.digits # AddressLength
    \/ ~address.hex
    \/ address.case = "badsum"

\* what ethers.getAddress(address) returns: the checksummed form, with "0x"
getAddress(address) ==
    StringValue(TRUE, AddressLength, TRUE, "checksum", address.zero)

ZeroAddress == StringValue(TRUE, AddressLength, TRUE, "checksum", TRUE)

\* mutation of validate: only the first test is made
validateRequiredOnly(address) ==
    IF falsy(address)
    THEN [isValid |-> FALSE, error |-> <<"Address", "is", "required">>]
    ELSE [isValid |-> TRUE, error |-> << >>]

\* AddressValidator.validate
validate(address) ==
    IF falsy(address)
    THEN [isValid |-> FALSE, error |-> <<"Address", "is", "required">>]
    ELSE IF address.js # "string"
    THEN [isValid |-> FALSE, error |-> <<"Address", "must", "be", "a", "string">>]
    ELSE IF getAddressThrows(address)
    THEN [isValid |-> FALSE, error |-> <<"Invalid", "Ethereum", "address", "format">>]
    ELSE [isValid |-> TRUE, error |-> << >>]

\* AddressValidator.isValid
isValid(address) == validate(address).isValid

\* AddressValidator.requireValid: whether it throws, and with what message
requireValidThrows(address) == ~validate(address).isValid

\* AddressValidator.isZeroAddress
isZeroAddress(address) ==
    IF getAddressThrows(address) THEN FALSE ELSE getAddress(address) = ZeroAddress

\* lines 968-979: the synchronous checks of secureTransfer; the message thrown,
\* or << >> when the function goes on to provider.getNetwork
transferChecks(token, recipient, amountValid) ==
    IF requireValidThrows(token) THEN validate(token).error
    ELSE IF requireValidThrows(recipient) THEN validate(recipient).error
    ELSE IF isZeroAddress(recipient)
    THEN <<"Cannot", "send", "tokens", "to", "zero", "address">>
    ELSE IF ~amountValid THEN <<"Invalid", "amount">>
    ELSE << >>

TransferChains == {1, 137}
ContractCodes == {"0x", "0x6080"}

\* lines 961-979: the call, up to the await of provider.getNetwork
SecureTransfer ==
    /\ trPc = "idle"
    /\ LET message == transferChecks(trToken, trRecipient, trAmountValid)
       IN  IF message # << >>
           THEN /\ trPc' = "thrown"
                /\ trThrown' = message
                /\ UNCHANGED trCalls
           ELSE /\ trPc' = "awaitNetwork"
                /\ trCalls' = Append(trCalls, "getNetwork")
                /\ UNCHANGED trThrown
    /\ UNCHANGED <<trToken, trRecipient, trAmountValid>>
    /\ UNCHANGED notTrVars

\* lines 979-986: the network is checked against mainnet; provider.getCode
TrNetworkResolves ==
    /\ trPc = "awaitNetwork"
    /\ \E chain \in TransferChains :
        IF chain # 1
        THEN /\ trPc' = "thrown"
             /\ trThrown' = <<"Wrong", "network">>
             /\ UNCHANGED trCalls
        ELSE /\ trPc' = "awaitCode"
             /\ trCalls' = Append(trCalls, "getCode")
             /\ UNCHANGED trThrown
    /\ UNCHANGED <<trToken, trRecipient, trAmountValid>>
    /\ UNCHANGED notTrVars

\* lines 986-1001: the code at the token address; the first estimateGas
TrCodeResolves ==
    /\ trPc = "awaitCode"
    /\ \E code \in ContractCodes :
        IF code = "0x"
        THEN /\ trPc' = "thrown"
             /\ trThrown' = <<"No", "contract", "found", "at", "the", "given", "address">>
             /\ UNCHANGED trCalls
        ELSE /\ trPc' = "awaitEstimate"
             /\ trCalls' = Append(trCalls, "estimateGas")
             /\ UNCHANGED trThrown
    /\ UNCHANGED <<trToken, trRecipient, trAmountValid>>
    /\ UNCHANGED notTrVars

\* lines 1000-1006: the first estimate resolves; the second estimateGas
TrEstimateResolves ==
    /\ trPc = "awaitEstimate"
    /\ trPc' = "awaitLimit"
    /\ trCalls' = Append(trCalls, "estimateGas")
    /\ UNCHANGED <<trToken, trRecipient, trAmountValid, trThrown>>
    /\ UNCHANGED notTrVars

\* lines 1002-1004: the first estimate rejects
TrEstimateRejects ==
    /\ trPc = "awaitEstimate"
    /\ trPc' = "thrown"
    /\ trThrown' = <<"Transaction", "would", "fail">>
    /\ UNCHANGED <<trToken, trRecipient, trAmountValid, trCalls>>
    /\ UNCHANGED notTrVars

\* lines 1006-1009: the second estimate resolves; contract.transfer with the limit
TrLimitResolves ==
    /\ trPc = "awaitLimit"
    /\ trPc' = "awaitTransfer"
    /\ trCalls' = Append(trCalls, "transfer")
    /\ UNCHANGED <<trToken, trRecipient, trAmountValid, trThrown>>
    /\ UNCHANGED notTrVars

\* line 1009: contract.transfer resolves with the transaction response
TrTransferResolves ==
    /\ trPc = "awaitTransfer"
    /\ trPc' = "returned"
    /\ UNCHANGED <<trToken, trRecipient, trAmountValid, trCalls, trThrown>>
    /\ UNCHANGED notTrVars

\* lines 979, 986, 1006, 1009: one of the other awaited calls rejects; the
\* rejection leaves the function as it is
TrRejects ==
    /\ trPc \in {"awaitNetwork", "awaitCode", "awaitLimit", "awaitTransfer"}
    /\ trPc' = "thrown"
    /\ trThrown' = <<"network", "error">>
    /\ UNCHANGED <<trToken, trRecipient, trAmountValid, trCalls>>
    /\ UNCHANGED notTrVars

TrIdle ==
    /\ trPc = "idle"
    /\ trToken = ZeroAddress
    /\ trRecipient = ZeroAddress
    /\ trAmountValid = TRUE
    /\ trCalls = << >>
    /\ trThrown = << >>

TrInit ==
    /\ trPc = "idle"
    /\ trToken \in AddressInputs
    /\ trRecipient \in AddressInputs
    /\ trAmountValid \in BOOLEAN
    /\ trCalls = << >>
    /\ trThrown = << >>

TrSteps ==
    \/ SecureTransfer
    \/ TrNetworkResolves
    \/ TrCodeResolves
    \/ TrEstimateResolves
    \/ TrEstimateRejects
    \/ TrLimitResolves
    \/ TrTransferResolves
    \/ TrRejects

\* empty, not a string, or rejected by the address format
Malformed(address) ==
    \/ address.js # "string"
    \/ (~address.prefix /\ address.digits = 0)
    \/ getAddressThrows(address)

\* C8: for every malformed address, isValid is false and requireValid throws, and
\* secureTransfer called with one stops before any provider or contract call.
C8_MalformedRejectedFirst ==
    \A address \in {trToken, trRecipient} :
        Malformed(address) =>
            /\ ~isValid(address)
            /\ requireValidThrows(address)
            /\ (trPc # "idle" => (trPc = "thrown" /\ trCalls = << >>))

\* secureTransfer has thrown on a well-formed token and a malformed recipient of
\* each kind: a non-string and a string of the wrong format
C8_Witness ==
    /\ trPc = "thrown"
    /\ trCalls = << >>
    /\ ~Malformed(trToken)
    /\ trRecipient.js = "string" /\ trRecipient.prefix /\ trRecipient.digits = 3
    /\ trThrown = <<"Invalid", "Ethereum", "address", "format">>

(***************************************************************************)
(* The classifier applied to one failure value: ErrorParser.parse,         *)
(* TransactionUtils.parseTransactionError, TransactionErrorTracker         *)
(* .isRetryable                                                            *)
(***************************************************************************)
\* String.prototype.toLowerCase on a word of a message
lowerWord(word) ==
    CASE word = "Timeout" -> "timeout"
      [] word = "Contract reverted:" -> "contract reverted:"
      [] word = "Not owner" -> "not owner"
      [] word = "Not" -> "not"
      [] word = "Transaction would fail - check parameters" ->
            "transaction would fail - check parameters"
      [] word = "Transaction rejected by user" -> "transaction rejected by user"
      [] word = "Insufficient funds for transaction" -> "insufficient funds for transaction"
      [] word = "Network connection failed" -> "network connection failed"
      [] word = "Invalid address" -> "invalid address"
      [] word = "Unknown reason" -> "unknown reason"
      [] OTHER -> word

toLowerCase(message) == [i \in 1..Len(message) |-> lowerWord(message[i])]

\* mutation of isRetryable: the type alone decides
isRetryableByType(error) == error.type \in {"NETWORK_ERROR", "UNKNOWN_ERROR"}

\* TransactionErrorTracker.isRetryable
isRetryable(error) ==
    IF error.type \in {"NETWORK_ERROR", "UNKNOWN_ERROR"} THEN TRUE
    ELSE IF error.type = "CONTRACT_ERROR"
    THEN \E msg \in {"network", "timeout", "connection"} :
            includes(Some(toLowerCase(error.message[1])), msg)
    ELSE FALSE

\* TransactionUtils.parseTransactionError, for a value it does not throw on
parseTransactionError(error) ==
    IF error.code = "n:4001" \/ error.code = "s:ACTION_REJECTED"
    THEN <<"Transaction rejected by user">>
    ELSE IF error.code = "s:INSUFFICIENT_FUNDS"
    THEN <<"Insufficient funds for transaction">>
    ELSE IF error.code = "s:UNPREDICTABLE_GAS_LIMIT"
    THEN <<"Transaction would fail - check parameters">>
    ELSE IF truthy(error.reason) THEN <<"Contract error:">> \o error.reason[1]
    ELSE IF /\ includes(error.message, "revert")
            /\ extractRevertReason(error.message) # <<"Unknown reason">>
    THEN <<"Contract reverted:">> \o extractRevertReason(error.message)
    ELSE <<"Transaction failed">>

ClIdle ==
    /\ clPc = "idle"
    /\ clError = NoFailure
    /\ clResult = NoFailure
    /\ clText = << >>
    /\ clRetryable = "unasked"

ClInit ==
    /\ clPc = "idle"
    /\ clError \in FailureValues
    /\ clResult = NoFailure
    /\ clText = << >>
    /\ clRetryable = "unasked"

\* ErrorParser.parse(clError) and TransactionUtils.parseTransactionError(clError):
\* both read error.code first and throw a TypeError on null and undefined
Parse ==
    /\ clPc = "idle"
    /\ IF parseThrows(clError)
       THEN /\ clPc' = "thrown"
            /\ clResult' = TypeErrorValue
            /\ UNCHANGED clText
       ELSE /\ clPc' = "parsed"
            /\ clResult' = parse(clError)
            /\ clText' = parseTransactionError(clError)
    /\ UNCHANGED <<clError, clRetryable>>
    /\ UNCHANGED notClVars

\* TransactionErrorTracker.isRetryable on the classified error
IsRetryable ==
    /\ clPc = "parsed"
    /\ clPc' = "asked"
    /\ clRetryable' = IF isRetryable(clResult) THEN "true" ELSE "false"
    /\ UNCHANGED <<clError, clResult, clText>>
    /\ UNCHANGED notClVars

ClSteps ==
    \/ Parse
    \/ IsRetryable

\* C11: a failure carrying a revert reason string, and neither the user-declined
\* nor the insufficient-funds signal, is classified CONTRACT_ERROR with the reason
\* in the message, whatever its network signals.
C11_RevertReasonBeforeNetwork ==
    (/\ clPc \in {"parsed", "asked"}
     /\ clError.js = "object"
     /\ truthy(clError.reason)
     /\ ~UserDeclined(clError)
     /\ clError.code # "s:INSUFFICIENT_FUNDS")
    => /\ clResult.type = "CONTRACT_ERROR"
       /\ clResult.message = Some(<<"Contract reverted:">> \o clError.reason[1])

\* C12: a failure whose only signal is the code 'UNPREDICTABLE_GAS_LIMIT' is
\* classified VALIDATION_ERROR, with the message advising to check the parameters.
C12_GasEstimateIsValidationError ==
    (/\ clPc \in {"parsed", "asked"}
     /\ clError.js = "object"
     /\ clError.code = "s:UNPREDICTABLE_GAS_LIMIT"
     /\ ~truthy(clError.reason)
     /\ ~includes(clError.message, "revert")
     /\ ~includes(clError.message, "network"))
    => /\ clResult.type = "VALIDATION_ERROR"
       /\ clResult.message = Some(<<"Transaction would fail - check parameters">>)

\* C13: parse is total: for every failure value it returns an error whose type is
\* one of the six, and it never throws itself.
C13_ClassifierTotal ==
    clPc # "idle" =>
        /\ clPc # "thrown"
        /\ clResult.js = "web3"
        /\ clResult.type \in ErrorTypes

\* C14: isRetryable answers true only for errors of type NETWORK_ERROR or
\* UNKNOWN_ERROR, whatever the message.
C14_RetryableOnlyNetworkUnknown ==
    (clPc = "asked" /\ clRetryable = "true")
    => clResult.type \in {"NETWORK_ERROR", "UNKNOWN_ERROR"}

(***************************************************************************)
(* Gas limit overrides: GasSecurity.validateGasLimit,                      *)
(* SecureTransactionService.buildSecureTransaction and                     *)
(* TransactionValidator.validateTransactionData                            *)
(***************************************************************************)
MIN_GAS_LIMIT == 21000
MAX_GAS_LIMIT == 30000000

\* how far around 0, the floor and the ceiling the overrides are drawn
GasLimitSpread == 5

GasLimits ==
    ((0 - 1)..GasLimitSpread)
    \cup ((MIN_GAS_LIMIT - GasLimitSpread)..(MIN_GAS_LIMIT + GasLimitSpread))
    \cup ((MAX_GAS_LIMIT - GasLimitSpread)..(MAX_GAS_LIMIT + GasLimitSpread))
    \cup {10000, 50000000}

\* the decimal string of a bigint: its sign and its digits
RECURSIVE digits10(_)
digits10(n) == IF n < 10 THEN <<n>> ELSE Append(digits10(n \div 10), n % 10)

toString10(n) ==
    IF n < 0 THEN [negative |-> TRUE, digits |-> digits10(0 - n)]
    ELSE [negative |-> FALSE, digits |-> digits10(n)]

RECURSIVE parseDigits10(_)
parseDigits10(s) ==
    IF Len(s) = 0 THEN 0 ELSE 10 * parseDigits10(SubSeq(s, 1, Len(s) - 1)) + s[Len(s)]

\* BigInt(string)
BigInt(str) ==
    IF str.negative THEN 0 - parseDigits10(str.digits) ELSE parseDigits10(str.digits)

\* GasSecurity.validateGasLimit: the message thrown, << >> when it returns
validateGasLimit(gasLimit) ==
    IF gasLimit < MIN_GAS_LIMIT THEN <<"Gas limit too low">>
    ELSE IF gasLimit > MAX_GAS_LIMIT THEN <<"Gas limit too high">>
    ELSE << >>

\* buildSecureTransaction, lines 1256-1258: if (gasLimit) validateGasLimit(gasLimit);
\* the bigint 0n is falsy
buildGasLimitCheck(gasLimit) ==
    IF gasLimit # 0 THEN validateGasLimit(gasLimit) ELSE << >>

\* validateTransactionData, lines 200-213: the errors pushed for data.gasLimit, a
\* non-empty decimal string
gasLimitErrors(str) ==
    LET gasLimit == BigInt(str)
    IN (IF gasLimit <= 0 THEN <<"Gas limit must be greater than zero">> ELSE << >>)
       \o (IF gasLimit > 30000000 THEN <<"Gas limit exceeds block limit">> ELSE << >>)

GlIdle ==
    /\ glPc = "idle"
    /\ glLimit = MIN_GAS_LIMIT
    /\ glErrors = << >>
    /\ glUsed = Null

GlInit ==
    /\ glPc = "idle"
    /\ glLimit \in GasLimits
    /\ glErrors = << >>
    /\ glUsed = Null

\* GasSecurity.validateGasLimit(glLimit)
ValidateGasLimit ==
    /\ glPc = "idle"
    /\ glPc' = "validateGasLimit"
    /\ glErrors' = validateGasLimit(glLimit)
    /\ UNCHANGED <<glLimit, glUsed>>
    /\ UNCHANGED notGlVars

\* buildSecureTransaction({to, gasLimit: glLimit}) with a valid recipient: the
\* request returned carries gasLimit as given
BuildSecureTransaction ==
    /\ glPc = "idle"
    /\ glPc' = "buildSecureTransaction"
    /\ glErrors' = buildGasLimitCheck(glLimit)
    /\ glUsed' = IF buildGasLimitCheck(glLimit) = << >> THEN Some(glLimit) ELSE Null
    /\ UNCHANGED glLimit
    /\ UNCHANGED notGlVars

\* TransactionValidator.validateTransactionData({gasLimit: String(glLimit)})
ValidateTransactionData ==
    /\ glPc = "idle"
    /\ glPc' = "validateTransactionData"
    /\ glErrors' = gasLimitErrors(toString10(glLimit))
    /\ UNCHANGED <<glLimit, glUsed>>
    /\ UNCHANGED notGlVars

GlSteps ==
    \/ ValidateGasLimit
    \/ BuildSecureTransaction
    \/ ValidateTransactionData

\* C24: an override is accepted if and only if it lies in 21000..30000000, and an
\* accepted override is used as given.
C24_GasLimitOverrideRange ==
    glPc # "idle" =>
        /\ (glErrors = << >>) <=> (glLimit >= 21000 /\ glLimit <= 30000000)
        /\ (glPc = "buildSecureTransaction" /\ glErrors = << >>) => glUsed = Some(glLimit)

(***************************************************************************)
(* ErrorLogger: log, getRecentErrors, clearLogs                            *)
(***************************************************************************)
\* "Keep only last 100 errors"
MaxLogEntries == 100

\* getRecentErrors(limit = 10)
DefaultLimit == 10

\* log() is called at most MaxLogs times
MaxLogs == 103

\* the limits getRecentErrors is called with
Limits == {0, 1, DefaultLimit, MaxLogEntries - 1, MaxLogEntries, MaxLogEntries + 1}

\* Array.prototype.slice(start) on a sequence: a negative start counts from the
\* end, and -0 is 0
jsSliceFrom(s, start) ==
    LET len == Len(s)
        from == IF start < 0
                THEN (IF len + start > 0 THEN len + start ELSE 0)
                ELSE (IF start < len THEN start ELSE len)
    IN SubSeq(s, from + 1, len)

\* log(): push, then keep the last 100
logPush(logs, entry) ==
    LET pushed == Append(logs, entry)
    IN IF Len(pushed) > MaxLogEntries THEN jsSliceFrom(pushed, 0 - MaxLogEntries) ELSE pushed

\* getRecentErrors(limit): this.logs.slice(-limit)
getRecentErrors(logs, limit) == jsSliceFrom(logs, 0 - limit)

ElIdle ==
    /\ elLogs = << >>
    /\ elCount = 0
    /\ elLimit = 0
    /\ elResult = Null

ElInit == ElIdle

\* log(error, context): the entry is identified by the number of the call
Log ==
    /\ elCount < MaxLogs
    /\ elCount' = elCount + 1
    /\ elLogs' = logPush(elLogs, elCount + 1)
    /\ elResult' = Null
    /\ UNCHANGED elLimit
    /\ UNCHANGED notElVars

GetRecentErrors(limit) ==
    /\ elLimit' = limit
    /\ elResult' = Some(getRecentErrors(elLogs, limit))
    /\ UNCHANGED <<elLogs, elCount>>
    /\ UNCHANGED notElVars

ClearLogs ==
    /\ elLogs' = << >>
    /\ elResult' = Null
    /\ UNCHANGED <<elCount, elLimit>>
    /\ UNCHANGED notElVars

ElSteps ==
    \/ Log
    \/ \E limit \in Limits : GetRecentErrors(limit)
    \/ ClearLogs

\* the last n elements of a sequence, n <= Len(s)
LastN(s, n) == SubSeq(s, Len(s) - n + 1, Len(s))

\* C30: the logger keeps at most 100 entries, the most recent ones in the order
\* they were logged, and getRecentErrors(limit) returns the latest
\* min(limit, stored) entries for every limit >= 0.
C30_LoggerKeepsLatest ==
    /\ Len(elLogs) <= 100
    /\ \A i \in 1..Len(elLogs) : elLogs[i] = elCount - Len(elLogs) + i
    /\ elResult # Null =>
           elResult = Some(LastN(elLogs, IF elLimit < Len(elLogs) THEN elLimit ELSE Len(elLogs)))

(***************************************************************************)
(* ContractFactory: getContract, clearCache                                *)
(* (utils/contract-helpers, and the variant of the contract-calls README)  *)
(***************************************************************************)
\* addresses as their characters: two spellings of one address, and another
FactoryAddresses ==
    {<<"0", "x", "a", "b">>, <<"0", "x", "A", "B">>, <<"0", "x", "c", "d">>}

FactorySigners == {"signer1", "signer2"}

FactoryAbis == {"ERC20", "ERC721"}

\* String.prototype.toLowerCase on the characters of an address
lowerChar(ch) ==
    IF ch = "A" THEN "a" ELSE IF ch = "B" THEN "b" ELSE ch

addressToLowerCase(address) == [i \in 1..Len(address) |-> lowerChar(address[i])]

\* the cache key: `${address.toLowerCase()}-${signer ? 'signer' : 'provider'}`;
\* the README variant does not lower the address
contractKey(variant, address, signer) ==
    <<IF variant = "utils" THEN addressToLowerCase(address) ELSE address,
      IF signer # None THEN "signer" ELSE "provider">>

\* new ethers.Contract(address, abi, signer || this.provider)
newContract(address, abi, signer) ==
    [target |-> address, interface |-> abi,
     runner |-> IF signer # None THEN signer ELSE "provider"]

FactoryKeys ==
    {contractKey("readme", a, s) : a \in FactoryAddresses, s \in FactorySigners \cup {None}}

\* getContract: the map after the call
getContractCache(variant, contracts, address, abi, signer) ==
    LET key == contractKey(variant, address, signer)
    IN IF contracts[key] = Null
       THEN [contracts EXCEPT ![key] = Some(newContract(address, abi, signer))]
       ELSE contracts

\* getContract: the contract returned, this.contracts.get(key)!
getContract(variant, contracts, address, abi, signer) ==
    getContractCache(variant, contracts, address, abi, signer)[contractKey(variant, address, signer)][1]

CfIdle ==
    /\ cfVariant = "utils"
    /\ cfContracts = [k \in FactoryKeys |-> Null]
    /\ cfCall = Null
    /\ cfResult = Null

CfInit ==
    /\ cfVariant \in {"utils", "readme"}
    /\ cfContracts = [k \in FactoryKeys |-> Null]
    /\ cfCall = Null
    /\ cfResult = Null

GetContract(address, abi, signer) ==
    /\ cfContracts' = getContractCache(cfVariant, cfContracts, address, abi, signer)
    /\ cfResult' = Some(getContract(cfVariant, cfContracts, address, abi, signer))
    /\ cfCall' = Some([address |-> address, abi |-> abi, signer |-> signer])
    /\ UNCHANGED cfVariant
    /\ UNCHANGED notCfVars

ClearCache ==
    /\ cfContracts' = [k \in FactoryKeys |-> Null]
    /\ UNCHANGED <<cfVariant, cfCall, cfResult>>
    /\ UNCHANGED notCfVars

CfSteps ==
    \/ \E address \in FactoryAddresses, abi \in FactoryAbis, signer \in FactorySigners \cup {None} :
           GetContract(address, abi, signer)
    \/ ClearCache

\* C29: the contract getContract returns is bound to the signer of that call (the
\* provider when there is none) and to the ABI of that call, whatever was asked
\* for since the last clearCache().
C29_ContractBoundToCall ==
    cfResult # Null =>
        /\ cfResult[1].runner = (IF cfCall[1].signer # None THEN cfCall[1].signer ELSE "provider")
        /\ cfResult[1].interface = cfCall[1].abi

(***************************************************************************)
(* transactionReducer (TransactionContext.tsx)                             *)
(***************************************************************************)
ReducerIds == {"t1", "t2", "t3"}

ReducerStatuses == {"pending", "success", "error"}

ReducerHashes == {<<"0xh">>}

\* a Transaction: id and status, and the optional hash (type and timestamp are
\* never read by the reducer). The id is None for an object spread from undefined.
NewTransactions ==
    [id : ReducerIds, status : ReducerStatuses, hash : {Null} \cup ReducerHashes]

\* Partial<Transaction>: a field is Null when the update does not carry it
ReducerUpdates ==
    [status : {Null} \cup {Some(s) : s \in ReducerStatuses}, hash : {Null} \cup ReducerHashes]

\* { ...tx, ...updates }
spreadUpdates(tx, updates) ==
    [id |-> tx.id,
     status |-> IF updates.status # Null THEN updates.status[1] ELSE tx.status,
     hash |-> IF updates.hash # Null THEN updates.hash ELSE tx.hash]

\* what the spread of undefined contributes
UndefinedTransaction == [id |-> None, status |-> None, hash |-> Null]

\* Array.prototype.find(tx => tx.id === id): the first match, or undefined
RECURSIVE findById(_, _)
findById(list, id) ==
    IF Len(list) = 0 THEN UndefinedTransaction
    ELSE IF Head(list).id = id THEN Head(list)
    ELSE findById(Tail(list), id)

\* Array.prototype.filter(tx => tx.id !== id)
withoutId(list, id) == SelectSeq(list, LAMBDA tx : tx.id # id)

\* Array.prototype.map of the UPDATE_TRANSACTION case
mapUpdates(list, id, updates) ==
    [i \in 1..Len(list) |-> IF list[i].id = id THEN spreadUpdates(list[i], updates) ELSE list[i]]

transactionReducer(st, action) ==
    CASE action.type = "ADD_TRANSACTION" ->
            [transactions |-> <<action.payload>> \o st.transactions,
             pending |-> IF action.payload.status = "pending"
                         THEN <<action.payload>> \o st.pending
                         ELSE st.pending]
      [] action.type = "UPDATE_TRANSACTION" ->
            [transactions |-> mapUpdates(st.transactions, action.payload.id, action.payload.updates),
             pending |-> withoutId(st.pending, action.payload.id)
                         \o (IF action.payload.updates.status = Some("pending")
                             THEN <<spreadUpdates(findById(st.transactions, action.payload.id),
                                                  action.payload.updates)>>
                             ELSE << >>)]
      [] action.type = "REMOVE_TRANSACTION" ->
            [transactions |-> withoutId(st.transactions, action.payload),
             pending |-> withoutId(st.pending, action.payload)]
      [] action.type = "CLEAR_TRANSACTIONS" ->
            [transactions |-> << >>, pending |-> << >>]
      [] OTHER -> st

\* the ids in a list
idsOf(list) == {list[i].id : i \in 1..Len(list)}

RdIdle ==
    /\ rdState = [transactions |-> << >>, pending |-> << >>]
    /\ rdLast = "none"

RdInit == RdIdle

\* dispatch of ADD_TRANSACTION with a transaction whose id is not in the list
AddTransaction(tx) ==
    /\ tx.id \notin idsOf(rdState.transactions)
    /\ rdState' = transactionReducer(rdState, [type |-> "ADD_TRANSACTION", payload |-> tx])
    /\ rdLast' = "ADD_TRANSACTION"
    /\ UNCHANGED notRdVars

\* dispatch of UPDATE_TRANSACTION for a transaction of the list
UpdateTransaction(id, updates) ==
    /\ id \in idsOf(rdState.transactions)
    /\ rdState' = transactionReducer(rdState, [type |-> "UPDATE_TRANSACTION",
                                               payload |-> [id |-> id, updates |-> updates]])
    /\ rdLast' = "UPDATE_TRANSACTION"
    /\ UNCHANGED notRdVars

RemoveTransaction(id) ==
    /\ rdState' = transactionReducer(rdState, [type |-> "REMOVE_TRANSACTION", payload |-> id])
    /\ rdLast' = "REMOVE_TRANSACTION"
    /\ UNCHANGED notRdVars

ClearTransactions ==
    /\ rdState' = transactionReducer(rdState, [type |-> "CLEAR_TRANSACTIONS"])
    /\ rdLast' = "CLEAR_TRANSACTIONS"
    /\ UNCHANGED notRdVars

RdSteps ==
    \/ \E tx \in NewTransactions : AddTransaction(tx)
    \/ \E id \in ReducerIds, updates \in ReducerUpdates : UpdateTransaction(id, updates)
    \/ \E id \in ReducerIds : RemoveTransaction(id)
    \/ ClearTransactions

\* the elements of a list
elementsOf(list) == {list[i] : i \in 1..Len(list)}

\* C28: after any sequence of ADD, UPDATE, REMOVE and CLEAR, the pending list holds
\* exactly the transactions whose status is 'pending'.
C28_PendingIsPendingTransactions ==
    elementsOf(rdState.pending)
        = {tx \in elementsOf(rdState.transactions) : tx.status = "pending"}

(***************************************************************************)
(* ContractCallCache: get, clear                                           *)
(***************************************************************************)
\* private ttl = 60000
ttl == 60000

\* Date.now() advances in steps of half the ttl, MaxTicks times
TickLength == ttl \div 2

MaxTicks == 3

\* the get() calls that may be in flight together
Getters == {1, 2}

\* the calls asked for: the contract's address, the method and the arguments
CacheCalls ==
    {[contract |-> "0xA", method |-> "balanceOf", args |-> <<"u1">>],
     [contract |-> "0xA", method |-> "balanceOf", args |-> <<"undefined">>],
     [contract |-> "0xA", method |-> "balanceOf", args |-> <<"null">>]}

\* JSON.stringify of an argument array: undefined is written as null
jsonStringify(args) ==
    [i \in 1..Len(args) |-> IF args[i] = "undefined" THEN "null" ELSE args[i]]

\* getKey(contract, method, args)
getKey(contract, method, args) == <<contract, method, jsonStringify(args)>>

keyOfCall(call) == getKey(call.contract, call.method, call.args)

CacheKeys == {keyOfCall(call) : call \in CacheCalls}

\* cached && Date.now() - cached.timestamp < this.ttl
cacheHit(cached, now) == cached # Null /\ now - cached[1].timestamp < ttl

IdleGet ==
    [pc |-> "idle", call |-> CHOOSE call \in CacheCalls : call.args = <<"u1">>,
     invoked |-> 0, hit |-> FALSE, afterClear |-> FALSE, result |-> Null]

CcIdle ==
    /\ ccNow = 0
    /\ ccCache = [k \in CacheKeys |-> Null]
    /\ ccGet = [g \in Getters |-> IdleGet]
    /\ ccCleared = [k \in CacheKeys |-> FALSE]

CcInit == CcIdle

\* Date.now() moves on
CacheTick ==
    /\ ccNow < MaxTicks * TickLength
    /\ ccNow' = ccNow + TickLength
    /\ UNCHANGED <<ccCache, ccGet, ccCleared>>
    /\ UNCHANGED notCcVars

\* get(contract, method, args) is called: it awaits contract.getAddress().
\* afterClear: this is the first get of its key since a clear()
CacheGet(g, call) ==
    /\ ccGet[g].pc \in {"idle", "returned", "thrown"}
    /\ ccGet' = [ccGet EXCEPT ![g] = [pc |-> "getAddress", call |-> call, invoked |-> 0,
                                      hit |-> FALSE, afterClear |-> ccCleared[keyOfCall(call)],
                                      result |-> Null]]
    /\ ccCleared' = [ccCleared EXCEPT ![keyOfCall(call)] = FALSE]
    /\ UNCHANGED <<ccNow, ccCache>>
    /\ UNCHANGED notCcVars

\* getAddress() resolved: the cache is read; a hit returns the data, a miss
\* invokes the contract and awaits it
CacheLookup(g) ==
    /\ ccGet[g].pc = "getAddress"
    /\ LET cached == ccCache[keyOfCall(ccGet[g].call)]
       IN ccGet' = [ccGet EXCEPT ![g] =
               IF cacheHit(cached, ccNow)
               THEN [@ EXCEPT !.pc = "returned", !.hit = TRUE, !.result = Some(cached[1].data)]
               ELSE [@ EXCEPT !.pc = "calling", !.invoked = @ + 1]]
    /\ UNCHANGED <<ccNow, ccCache, ccCleared>>
    /\ UNCHANGED notCcVars

\* the contract call resolved (its data is named by the time it resolved): the
\* entry is set with Date.now() and the result returned
CacheCallResolves(g) ==
    /\ ccGet[g].pc = "calling"
    /\ ccCache' = [ccCache EXCEPT ![keyOfCall(ccGet[g].call)] =
                       Some([data |-> ccNow, timestamp |-> ccNow])]
    /\ ccGet' = [ccGet EXCEPT ![g] = [@ EXCEPT !.pc = "returned", !.result = Some(ccNow)]]
    /\ UNCHANGED <<ccNow, ccCleared>>
    /\ UNCHANGED notCcVars

\* the contract call rejected: get() rejects, nothing is stored
CacheCallRejects(g) ==
    /\ ccGet[g].pc = "calling"
    /\ ccGet' = [ccGet EXCEPT ![g] = [@ EXCEPT !.pc = "thrown"]]
    /\ UNCHANGED <<ccNow, ccCache, ccCleared>>
    /\ UNCHANGED notCcVars

\* clear()
CacheClear ==
    /\ ccCache' = [k \in CacheKeys |-> Null]
    /\ ccCleared' = [k \in CacheKeys |-> TRUE]
    /\ UNCHANGED <<ccNow, ccGet>>
    /\ UNCHANGED notCcVars

CcSteps ==
    \/ CacheTick
    \/ \E g \in Getters, call \in CacheCalls : CacheGet(g, call)
    \/ \E g \in Getters : CacheLookup(g)
    \/ \E g \in Getters : CacheCallResolves(g)
    \/ \E g \in Getters : CacheCallRejects(g)
    \/ CacheClear

\* C26: a get that finds an entry younger than the ttl returns it without invoking
\* the contract; any other get invokes the contract exactly once and stores the
\* result; and after clear() the next get of every key invokes the contract.
C26_CacheGet ==
    \A g \in Getters :
        ccGet[g].pc = "returned" =>
            /\ ccGet[g].hit => ccGet[g].invoked = 0
            /\ ~ccGet[g].hit => ccGet[g].invoked = 1
            /\ ccGet[g].afterClear => ccGet[g].invoked = 1

(***************************************************************************)
(* Specifications                                                          *)
(***************************************************************************)
InitWallet == WalletInit /\ RetryIdle /\ TxIdle /\ GasIdle /\ McIdle /\ TrIdle /\ ClIdle /\ GlIdle /\ ElIdle /\ CfIdle /\ RdIdle /\ CcIdle
InitRetry == RetryInit /\ WalletIdle /\ TxIdle /\ GasIdle /\ McIdle /\ TrIdle /\ ClIdle /\ GlIdle /\ ElIdle /\ CfIdle /\ RdIdle /\ CcIdle
InitTx == TxInit /\ WalletIdle /\ RetryIdle /\ GasIdle /\ McIdle /\ TrIdle /\ ClIdle /\ GlIdle /\ ElIdle /\ CfIdle /\ RdIdle /\ CcIdle
InitGas == GasInit /\ WalletIdle /\ RetryIdle /\ TxIdle /\ McIdle /\ TrIdle /\ ClIdle /\ GlIdle /\ ElIdle /\ CfIdle /\ RdIdle /\ CcIdle
InitMc == McInit /\ WalletIdle /\ RetryIdle /\ TxIdle /\ GasIdle /\ TrIdle /\ ClIdle /\ GlIdle /\ ElIdle /\ CfIdle /\ RdIdle /\ CcIdle
InitCl == ClInit /\ WalletIdle /\ RetryIdle /\ TxIdle /\ GasIdle /\ McIdle /\ TrIdle /\ GlIdle /\ ElIdle /\ CfIdle /\ RdIdle /\ CcIdle
InitTr == TrInit /\ WalletIdle /\ RetryIdle /\ TxIdle /\ GasIdle /\ McIdle /\ ClIdle /\ GlIdle /\ ElIdle /\ CfIdle /\ RdIdle /\ CcIdle
InitGl == GlInit /\ WalletIdle /\ RetryIdle /\ TxIdle /\ GasIdle /\ McIdle /\ TrIdle /\ ClIdle /\ ElIdle /\ CfIdle /\ RdIdle /\ CcIdle
InitEl == ElInit /\ WalletIdle /\ RetryIdle /\ TxIdle /\ GasIdle /\ McIdle /\ TrIdle /\ ClIdle /\ GlIdle /\ CfIdle /\ RdIdle /\ CcIdle
InitCf == CfInit /\ WalletIdle /\ RetryIdle /\ TxIdle /\ GasIdle /\ McIdle /\ TrIdle /\ ClIdle /\ GlIdle /\ ElIdle /\ RdIdle /\ CcIdle
InitRd == RdInit /\ WalletIdle /\ RetryIdle /\ TxIdle /\ GasIdle /\ McIdle /\ TrIdle /\ ClIdle /\ GlIdle /\ ElIdle /\ CfIdle /\ CcIdle
InitCc == CcInit /\ WalletIdle /\ RetryIdle /\ TxIdle /\ GasIdle /\ McIdle /\ TrIdle /\ ClIdle /\ GlIdle /\ ElIdle /\ CfIdle /\ RdIdle

SpecWallet == InitWallet /\ [][WalletSteps]_vars

SpecSession == InitWallet /\ [][SessionSteps]_vars

SpecSwitch == InitWallet /\ [][SwitchSteps]_vars

SpecRetry == InitRetry /\ [][RetrySteps]_vars

SpecTx == InitTx /\ [][TxSteps]_vars

SpecSubmit == InitTx /\ [][SubmitSteps]_vars

SpecGas == InitGas /\ [][GasSteps]_vars

SpecMc == InitMc /\ [][McSteps]_vars

SpecTr == InitTr /\ [][TrSteps]_vars

SpecCl == InitCl /\ [][ClSteps]_vars

SpecGl == InitGl /\ [][GlSteps]_vars

SpecEl == InitEl /\ [][ElSteps]_vars

SpecCf == InitCf /\ [][CfSteps]_vars

SpecRd == InitRd /\ [][RdSteps]_vars

SpecCc == InitCc /\ [][CcSteps]_vars

====
